---- MODULE Spec2Model ----
(***************************************************************************)
(* Model of grammers-tl-gen's struct generator (structs.rs) together with  *)
(* the semantics of the Rust code it emits.                                *)
(*                                                                         *)
(* The generator is modelled as operators that turn a Definition into an   *)
(* emitted program (a sequence of statements, one per emitted Rust         *)
(* statement).  The emitted serializer and deserializer are then executed  *)
(* by an interpreter over byte sequences, so that wire-format properties   *)
(* are decided by what the generator emits.                                *)
(***************************************************************************)
EXTENDS Integers, Sequences, FiniteSets, TLC

VARIABLES
    def,      \* the Definition handed to write_definition
    config,   \* Config.deserializable_functions
    val,      \* the value of the generated struct being serialized
    pc,       \* "start" | "emitted" | "built" | "rejected" | "serialized" | "decoded" | "done"
    serProg,  \* statements emitted by write_serializable
    deProg,   \* <<>> or <<program>> emitted by write_deserializable
    buf,      \* bytes written by the emitted serialize()
    inKind,   \* which bytes were handed to the emitted deserialize()
    input,    \* those bytes
    res,      \* outcome of the emitted deserialize()
    buf2,     \* bytes written by serialize() on the decoded value
    definitions, \* the Definition list handed to write_category_mod
    metadata,    \* the Metadata computed from that list
    category,    \* the Category handed to write_category_mod
    conf,        \* the Config handed to write_category_mod
    failing,     \* the write calls (by number) at which the writer fails
    file,        \* the writer W: what was written, calls made, first error
    ret,         \* "none" | "Ok" | "Err": what write_category_mod returned
    mpc,         \* "start" | "returned" | "narrowed"
    narrowing,   \* the last use of an emitted From / TryFrom impl
    client,      \* grammers_client::Client: connection, state and session
    wire,        \* what the client did on the network: connects and invokes
    outcome,     \* the last operation called on the client and what it returned
    iter,        \* a DialogIter (IterBuffer<GetDialogs, Dialog>)
    builder,     \* an AdminRightsBuilder or BannedRightsBuilder
    app          \* async_main of the parser binary

genVars == <<def, config, val, pc, serProg, deProg, buf, inKind, input, res, buf2>>
modVars == <<definitions, metadata, category, conf, failing, file, ret, mpc, narrowing>>
netVars == <<client, wire, outcome, iter, builder, app>>
vars == <<genVars, modVars, netVars>>

(***************************************************************************)
(* Bounds of the model.                                                    *)
(***************************************************************************)
MaxParams == 3

\* Bit indices a flag reference may carry (a Flags word has 32 bits).
BitIndices == {0, 2, 31}

\* Types of the Normal parameters; "true" is the zero-width flag type.
UngatedTypes == {"int", "string", "Bool"}
GatedTypes == {"true", "int"}

\* Option<T> is a sequence of length at most one.
None == <<>>
Some(x) == <<x>>

(***************************************************************************)
(* Payload values and their wire format (the serialization primitives the  *)
(* emitted code delegates to).                                             *)
(***************************************************************************)
\* A payload is a sequence of naturals: <<n>> for an int, <<b>> (0 or 1) for
\* a Bool, the character codes for a string.
PayloadValues(ty) ==
    CASE ty = "int" -> {<<7>>, <<258>>}
      [] ty = "Bool" -> {<<0>>, <<1>>}
      [] ty = "string" -> {<<>>, <<104, 105>>}

\* A 32-bit word (a u32, or an i32 in two's complement), little endian.
U32LE(x) ==
    << x % 256, (x \div 256) % 256, (x \div 65536) % 256, (x \div 16777216) % 256 >>

\* boolTrue#997275b5 and boolFalse#bc799737, as they appear on the wire.
BoolTrueBytes == <<181, 117, 114, 153>>
BoolFalseBytes == <<55, 151, 121, 188>>

Zeros(n) == [i \in 1..n |-> 0]

\* Padding that aligns n bytes to a multiple of four.
PadLen(n) == (4 - (n % 4)) % 4

\* T::serialize for the payload types.
SerializePayload(ty, data) ==
    CASE ty = "int" -> U32LE(data[1])
      [] ty = "Bool" -> IF data[1] = 1 THEN BoolTrueBytes ELSE BoolFalseBytes
      [] ty = "string" -> <<Len(data)>> \o data \o Zeros(PadLen(Len(data) + 1))

Drop(s, n) == SubSeq(s, n + 1, Len(s))
Take(s, n) == SubSeq(s, 1, n)

\* The i32 four little-endian bytes stand for (two's complement).
FromI32LE(b) ==
    b[1] + 256 * b[2] + 65536 * b[3]
    + 16777216 * (IF b[4] >= 128 THEN b[4] - 256 ELSE b[4])

\* T::deserialize for the payload types: [ok, data, rest].
Failure(bytes) == [ok |-> FALSE, data |-> <<>>, rest |-> bytes]
DeserializePayload(ty, bytes) ==
    CASE ty = "int" ->
            IF Len(bytes) < 4 THEN Failure(bytes)
            ELSE [ok |-> TRUE, data |-> <<FromI32LE(Take(bytes, 4))>>, rest |-> Drop(bytes, 4)]
      [] ty = "Bool" ->
            IF Len(bytes) < 4 THEN Failure(bytes)
            ELSE IF Take(bytes, 4) = BoolTrueBytes
                 THEN [ok |-> TRUE, data |-> <<1>>, rest |-> Drop(bytes, 4)]
            ELSE IF Take(bytes, 4) = BoolFalseBytes
                 THEN [ok |-> TRUE, data |-> <<0>>, rest |-> Drop(bytes, 4)]
            ELSE Failure(bytes)
      [] ty = "string" ->
            IF Len(bytes) < 1 THEN Failure(bytes)
            ELSE LET n == bytes[1]
                     total == 1 + n + PadLen(1 + n)
                 IN  IF n >= 254 \/ Len(bytes) < total THEN Failure(bytes)
                     ELSE [ok |-> TRUE, data |-> SubSeq(bytes, 2, 1 + n),
                           rest |-> Drop(bytes, total)]

\* u32::deserialize: [ok, data (the four bytes), rest].
DeserializeU32(bytes) ==
    IF Len(bytes) < 4 THEN Failure(bytes)
    ELSE [ok |-> TRUE, data |-> Take(bytes, 4), rest |-> Drop(bytes, 4)]

(***************************************************************************)
(* Bitwise operations on bytes and on 4-byte words.                        *)
(***************************************************************************)
RECURSIVE BitOr(_, _)
BitOr(a, b) ==
    IF a = 0 THEN b
    ELSE IF b = 0 THEN a
    ELSE (IF a % 2 = 1 \/ b % 2 = 1 THEN 1 ELSE 0) + 2 * BitOr(a \div 2, b \div 2)

RECURSIVE BitAnd(_, _)
BitAnd(a, b) ==
    IF a = 0 \/ b = 0 THEN 0
    ELSE (IF a % 2 = 1 /\ b % 2 = 1 THEN 1 ELSE 0) + 2 * BitAnd(a \div 2, b \div 2)

WordOr(w1, w2) == [i \in 1..4 |-> BitOr(w1[i], w2[i])]
WordAnd(w1, w2) == [i \in 1..4 |-> BitAnd(w1[i], w2[i])]
ZeroWord == <<0, 0, 0, 0>>

(***************************************************************************)
(* Definition Model (grammers_tl_parser::tl::{Definition, Parameter,       *)
(* ParameterType, Flag, Category}), as the generator reads it.             *)
(***************************************************************************)
Flag(name, index) == [name |-> name, index |-> index]
FlagsParam(name) == [name |-> name, kind |-> "Flags", ty |-> "#", flag |-> None]
NormalParam(name, ty, flag) == [name |-> name, kind |-> "Normal", ty |-> ty, flag |-> flag]

FlagsNames == <<"flags", "flags2", "flags3", "flags4", "flags5", "flags6">>
FieldNames == <<"peer", "message", "reply_to", "silent", "media", "entities">>

\* The parameters that may follow the parameters ps in a well-formed
\* Definition: a flag reference names a Flags parameter declared before it,
\* no two parameters share a bit of the same Flags parameter, and the
\* "true" type is always gated.
NextParams(ps) ==
    LET i == Len(ps) + 1
        flagsSoFar == {ps[j].name : j \in {k \in 1..Len(ps) : ps[k].kind = "Flags"}}
        used == {ps[j].flag[1] : j \in {k \in 1..Len(ps) : ps[k].flag # None}}
    IN  {FlagsParam(FlagsNames[Cardinality(flagsSoFar) + 1])}
        \cup {NormalParam(FieldNames[i], ty, None) : ty \in UngatedTypes}
        \cup {NormalParam(FieldNames[i], ty, Some(f)) :
                ty \in GatedTypes,
                f \in {Flag(n, b) : n \in flagsSoFar, b \in BitIndices} \ used}

RECURSIVE ParamLists(_)
ParamLists(n) ==
    IF n = 0 THEN {<<>>}
    ELSE LET shorter == ParamLists(n - 1)
         IN  shorter \cup UNION {{Append(ps, p) : p \in NextParams(ps)} :
                                    ps \in {s \in shorter : Len(s) = n - 1}}

\* 0x1234ABCD
SendMessageId == 18 * 16777216 + 52 * 65536 + 171 * 256 + 205

Categories == {"Types", "Functions"}
DefNames(c) == IF c = "Functions" THEN {"sendMessage", "getState"} ELSE {"updateShort"}

Definitions ==
    UNION {{[name |-> n, id |-> SendMessageId, category |-> c, params |-> ps] :
                n \in DefNames(c), ps \in ParamLists(MaxParams)} : c \in Categories}

(***************************************************************************)
(* Collaborators of the generator that live outside structs.rs.            *)
(***************************************************************************)
\* rustifier::parameters::attr_name: the identity on lower-case names that
\* are no Rust keyword (all names of FlagsNames and FieldNames are).
attr_name(param) == param.name

\* Metadata::is_unused_flag: no Normal parameter references this Flags field.
is_unused_flag(d, param) ==
    \A j \in 1..Len(d.params) :
        d.params[j].flag = None \/ d.params[j].flag[1].name # param.name

(***************************************************************************)
(* Values of the generated struct (write_struct): one field per Normal     *)
(* parameter, in declaration order; Flags parameters are not stored.       *)
(* A field is [name, some, data]: a "true"-typed field is the bool `some`, *)
(* a gated field is an Option (some, data), an ungated field always has    *)
(* some = TRUE.                                                            *)
(***************************************************************************)
Field(name, some, data) == [name |-> name, some |-> some, data |-> data]

FieldValues(p) ==
    IF p.ty = "true" THEN {Field(attr_name(p), b, <<>>) : b \in BOOLEAN}
    ELSE IF p.flag # None
         THEN {Field(attr_name(p), FALSE, <<>>)}
              \cup {Field(attr_name(p), TRUE, v) : v \in PayloadValues(p.ty)}
         ELSE {Field(attr_name(p), TRUE, v) : v \in PayloadValues(p.ty)}

RECURSIVE Structs(_)
Structs(ps) ==
    IF ps = <<>> THEN {<<>>}
    ELSE LET front == Structs(Take(ps, Len(ps) - 1))
             p == ps[Len(ps)]
         IN  IF p.kind = "Flags" THEN front
             ELSE {Append(s, f) : s \in front, f \in FieldValues(p)}

\* self.<name> of a struct value.
FieldOf(s, name) == s[CHOOSE i \in 1..Len(s) : s[i].name = name]


(***************************************************************************)
(* The generator: what write_serializable and write_deserializable emit.   *)
(***************************************************************************)
\* Doubling of an i32, wrapping as the machine does.
DoubleI32(x) ==
    IF x >= 2^30 THEN LET y == x - 2^30 - 2^30 IN y + y
    ELSE IF x < -(2^30) THEN LET y == x + 2^30 + 2^30 IN y + y
    ELSE x + x

RECURSIVE ShlI32(_, _)
ShlI32(x, n) == IF n = 0 THEN x ELSE ShlI32(DoubleI32(x), n - 1)

\* Mutant: the mask of the next bit.
MaskLiteralOffByOne(index) == ShlI32(1, index + 1)

\* `1 << flag.index`, as formatted into the emitted text: the literal 1 has
\* no other constraint on its type, so the shift is an i32 shift.
MaskLiteral(index) == ShlI32(1, index)

\* An emitted statement; the fields a statement does not use keep these values.
Stmt == [op |-> "", field |-> "", ty |-> "", terms |-> <<>>, var |-> "", lit |-> 0, try |-> FALSE]

RECURSIVE ConcatAll(_)
ConcatAll(ss) == IF ss = <<>> THEN <<>> ELSE Head(ss) \o ConcatAll(Tail(ss))

\* Mutant: without the `flag.name == param.name` guard, every gated parameter
\* contributes to every flags word.
FlagTermsAnyFlags(d, param) ==
    LET uses == SelectSeq(d.params, LAMBDA p : p.kind = "Normal" /\ p.flag # None)
    IN  [i \in 1..Len(uses) |->
            [field |-> attr_name(uses[i]),
             is_some |-> uses[i].ty # "true",
             lit |-> MaskLiteral(uses[i].flag[1].index)]]

\* ` | if self.<field>[.is_some()] { <lit> } else { 0 }` for every parameter p
\* of the Definition whose flag names the Flags parameter `param`.
FlagTerms(d, param) ==
    LET uses == SelectSeq(d.params,
                    LAMBDA p : p.kind = "Normal" /\ p.flag # None
                               /\ p.flag[1].name = param.name)
    IN  [i \in 1..Len(uses) |->
            [field |-> attr_name(uses[i]),
             is_some |-> uses[i].ty # "true",
             lit |-> MaskLiteral(uses[i].flag[1].index)]]

\* Mutant: a "true"-typed parameter is written as a word of its own.
SerStatementTrueAsWord(d, param) ==
    IF param.kind = "Flags"
    THEN <<[Stmt EXCEPT !.op = "WriteFlags", !.ty = "u32", !.terms = FlagTerms(d, param)]>>
    ELSE IF param.ty # "true"
         THEN IF param.flag # None
              THEN <<[Stmt EXCEPT !.op = "WriteOpt", !.field = attr_name(param), !.ty = param.ty]>>
              ELSE <<[Stmt EXCEPT !.op = "Write", !.field = attr_name(param), !.ty = param.ty]>>
         ELSE <<[Stmt EXCEPT !.op = "WriteFlags", !.ty = "u32",
                             !.terms = <<[field |-> attr_name(param), is_some |-> FALSE,
                                          lit |-> 1]>>]>>

\* Mutant: a Flags parameter without contributing fields is not written.
SerStatementSkipsUnusedFlags(d, param) ==
    IF param.kind = "Flags"
    THEN IF FlagTerms(d, param) = <<>> THEN <<>>
         ELSE <<[Stmt EXCEPT !.op = "WriteFlags", !.ty = "u32", !.terms = FlagTerms(d, param)]>>
    ELSE IF param.ty # "true"
         THEN IF param.flag # None
              THEN <<[Stmt EXCEPT !.op = "WriteOpt", !.field = attr_name(param), !.ty = param.ty]>>
              ELSE <<[Stmt EXCEPT !.op = "Write", !.field = attr_name(param), !.ty = param.ty]>>
         ELSE <<>>

\* The statement write_serializable emits for one parameter (none for "true").
SerStatement(d, param) ==
    IF param.kind = "Flags"
    THEN <<[Stmt EXCEPT !.op = "WriteFlags", !.ty = "u32", !.terms = FlagTerms(d, param)]>>
    ELSE IF param.ty # "true"
         THEN IF param.flag # None
              THEN <<[Stmt EXCEPT !.op = "WriteOpt", !.field = attr_name(param), !.ty = param.ty]>>
              ELSE <<[Stmt EXCEPT !.op = "Write", !.field = attr_name(param), !.ty = param.ty]>>
         ELSE <<>>

\* Mutant: no Definition writes its constructor id.
SerPrologueNever(d) == <<>>

\* Mutant: every Definition writes its constructor id, Types too.
SerPrologueAlways(d) == <<[Stmt EXCEPT !.op = "WriteId", !.ty = "u32"]>>

\* `Self::CONSTRUCTOR_ID.serialize(buf);`, emitted for Functions only.
SerPrologue(d) ==
    IF d.category = "Functions"
    THEN <<[Stmt EXCEPT !.op = "WriteId", !.ty = "u32"]>>
    ELSE <<>>

\* Mutant: the parameters are written last to first.
write_serializable_reversed(d) ==
    SerPrologue(d)
    \o ConcatAll([i \in 1..Len(d.params) |->
                    SerStatement(d, d.params[Len(d.params) + 1 - i])])

write_serializable(d) ==
    SerPrologue(d)
    \o ConcatAll([i \in 1..Len(d.params) |-> SerStatement(d, d.params[i])])

\* Mutant: a gated parameter is read whatever its flag bit says.
DeStatementUngated(d, param) ==
    IF param.kind = "Flags"
    THEN [Stmt EXCEPT !.op = "LetFlags", !.ty = "u32", !.try = TRUE,
                      !.var = (IF is_unused_flag(d, param) THEN "_" ELSE "")
                              \o attr_name(param)]
    ELSE IF param.ty = "true"
         THEN [Stmt EXCEPT !.op = "LetBit", !.field = attr_name(param),
                           !.var = param.flag[1].name,
                           !.lit = MaskLiteral(param.flag[1].index)]
         ELSE IF param.flag # None
              THEN [Stmt EXCEPT !.op = "Let", !.field = attr_name(param),
                                !.ty = param.ty, !.try = TRUE]
              ELSE [Stmt EXCEPT !.op = "Let", !.field = attr_name(param),
                                !.ty = param.ty, !.try = TRUE]

\* Mutant: every flag test uses the mask of bit 0.
DeStatementBitZero(d, param) ==
    IF param.kind = "Flags"
    THEN [Stmt EXCEPT !.op = "LetFlags", !.ty = "u32", !.try = TRUE,
                      !.var = (IF is_unused_flag(d, param) THEN "_" ELSE "")
                              \o attr_name(param)]
    ELSE IF param.ty = "true"
         THEN [Stmt EXCEPT !.op = "LetBit", !.field = attr_name(param),
                           !.var = param.flag[1].name,
                           !.lit = MaskLiteral(0)]
         ELSE IF param.flag # None
              THEN [Stmt EXCEPT !.op = "LetOpt", !.field = attr_name(param),
                                !.ty = param.ty, !.try = TRUE,
                                !.var = param.flag[1].name,
                                !.lit = MaskLiteral(0)]
              ELSE [Stmt EXCEPT !.op = "Let", !.field = attr_name(param),
                                !.ty = param.ty, !.try = TRUE]

\* Mutant: the reads carry no `?`; a failed read yields the default value.
DeStatementNoTry(d, param) ==
    IF param.kind = "Flags"
    THEN [Stmt EXCEPT !.op = "LetFlags", !.ty = "u32", !.try = FALSE,
                      !.var = (IF is_unused_flag(d, param) THEN "_" ELSE "")
                              \o attr_name(param)]
    ELSE IF param.ty = "true"
         THEN [Stmt EXCEPT !.op = "LetBit", !.field = attr_name(param),
                           !.var = param.flag[1].name,
                           !.lit = MaskLiteral(param.flag[1].index)]
         ELSE IF param.flag # None
              THEN [Stmt EXCEPT !.op = "LetOpt", !.field = attr_name(param),
                                !.ty = param.ty, !.try = FALSE,
                                !.var = param.flag[1].name,
                                !.lit = MaskLiteral(param.flag[1].index)]
              ELSE [Stmt EXCEPT !.op = "Let", !.field = attr_name(param),
                                !.ty = param.ty, !.try = FALSE]

\* Mutant: a `true` parameter without a flag is read as a bit that is never
\* set instead of being refused.
DeStatementLenient(d, param) ==
    IF param.kind = "Flags"
    THEN [Stmt EXCEPT !.op = "LetFlags", !.ty = "u32", !.try = TRUE,
                      !.var = (IF is_unused_flag(d, param) THEN "_" ELSE "")
                              \o attr_name(param)]
    ELSE IF param.ty = "true"
         THEN [Stmt EXCEPT !.op = "LetBit", !.field = attr_name(param),
                           !.var = IF param.flag = None THEN "flags"
                                   ELSE param.flag[1].name,
                           !.lit = IF param.flag = None THEN 0
                                   ELSE MaskLiteral(param.flag[1].index)]
         ELSE IF param.flag # None
              THEN [Stmt EXCEPT !.op = "LetOpt", !.field = attr_name(param),
                                !.ty = param.ty, !.try = TRUE,
                                !.var = param.flag[1].name,
                                !.lit = MaskLiteral(param.flag[1].index)]
              ELSE [Stmt EXCEPT !.op = "Let", !.field = attr_name(param),
                                !.ty = param.ty, !.try = TRUE]

\* The `let` statement write_deserializable emits for one parameter; for a
\* `true` parameter without a flag the `.expect(..)` on the flag panics
\* instead of emitting anything.
DeStatement(d, param) ==
    IF param.kind = "Flags"
    THEN [Stmt EXCEPT !.op = "LetFlags", !.ty = "u32", !.try = TRUE,
                      !.var = (IF is_unused_flag(d, param) THEN "_" ELSE "")
                              \o attr_name(param)]
    ELSE IF param.ty = "true" /\ param.flag = None
         THEN [Stmt EXCEPT !.op = "Panic", !.field = attr_name(param)]
    ELSE IF param.ty = "true"
         THEN [Stmt EXCEPT !.op = "LetBit", !.field = attr_name(param),
                           !.var = param.flag[1].name,
                           !.lit = MaskLiteral(param.flag[1].index)]
         ELSE IF param.flag # None
              THEN [Stmt EXCEPT !.op = "LetOpt", !.field = attr_name(param),
                                !.ty = param.ty, !.try = TRUE,
                                !.var = param.flag[1].name,
                                !.lit = MaskLiteral(param.flag[1].index)]
              ELSE [Stmt EXCEPT !.op = "Let", !.field = attr_name(param),
                                !.ty = param.ty, !.try = TRUE]

\* The fields of `Ok(Name { ... })`: the Normal parameters, in order.
DeFields(d) ==
    LET normals == SelectSeq(d.params, LAMBDA p : p.kind = "Normal")
    IN  [i \in 1..Len(normals) |-> attr_name(normals[i])]

write_deserializable(d) ==
    [stmts |-> [i \in 1..Len(d.params) |-> DeStatement(d, d.params[i])],
     fields |-> DeFields(d)]

\* Mutant: without the `def.name == "sendMessage"` special case.
EmitsDeserializerNoSpecialCase(d, cfg) ==
    d.category = "Types" \/ cfg

\* write_definition's condition for emitting a deserializer.
EmitsDeserializer(d, cfg) ==
    d.category = "Types" \/ cfg \/ d.name = "sendMessage"


(***************************************************************************)
(* The emitted code as Rust reads it.                                      *)
(***************************************************************************)
\* rustc accepts the emitted impls: every mask literal stands where a u32 is
\* expected (`0u32 | if .. { lit } else { 0 }`, `(flags & lit) != 0`), so it
\* must not be negative; and every flags variable a `let` reads was bound by
\* an earlier `let`.
TypeChecks(sp, dp) ==
    /\ \A i \in 1..Len(sp) : \A k \in 1..Len(sp[i].terms) : sp[i].terms[k].lit >= 0
    /\ \A n \in 1..Len(dp) : \A i \in 1..Len(dp[n].stmts) :
          dp[n].stmts[i].op \in {"LetBit", "LetOpt"} =>
              /\ dp[n].stmts[i].lit >= 0
              /\ \E j \in 1..(i - 1) :
                    /\ dp[n].stmts[j].op = "LetFlags"
                    /\ dp[n].stmts[j].var = dp[n].stmts[i].var

\* `(0u32 | t1 | t2 ...)` for the value s.
RECURSIVE FlagsWord(_, _)
FlagsWord(terms, s) ==
    IF terms = <<>> THEN ZeroWord
    ELSE LET n == Len(terms)
             t == terms[n]
         IN  WordOr(FlagsWord(Take(terms, n - 1), s),
                    IF FieldOf(s, t.field).some THEN U32LE(t.lit) ELSE ZeroWord)

\* The bytes one emitted serializer statement appends to buf.
ExecSer(stmt, d, s) ==
    CASE stmt.op = "WriteId" -> U32LE(d.id)
      [] stmt.op = "WriteFlags" -> FlagsWord(stmt.terms, s)
      [] stmt.op = "WriteOpt" ->
            IF FieldOf(s, stmt.field).some
            THEN SerializePayload(stmt.ty, FieldOf(s, stmt.field).data)
            ELSE <<>>
      [] stmt.op = "Write" -> SerializePayload(stmt.ty, FieldOf(s, stmt.field).data)

\* The emitted serialize(): the statements run in order.
RunSer(prog, d, s) ==
    ConcatAll([i \in 1..Len(prog) |-> ExecSer(prog[i], d, s)])

\* Default::default() of a type, as a payload.
DefaultData(ty) ==
    CASE ty = "int" -> <<0>>
      [] ty = "Bool" -> <<0>>
      [] ty = "string" -> <<>>
      [] ty = "u32" -> ZeroWord

\* One emitted `let`: [ok, name, value, rest].  A read that fails makes the
\* statement fail when it carries `?`; without `?` the default is bound.
ExecDe(stmt, locals, rest) ==
    LET bit == WordAnd(locals[stmt.var], U32LE(stmt.lit)) # ZeroWord
        read == IF stmt.op = "LetFlags" THEN DeserializeU32(rest)
                ELSE DeserializePayload(stmt.ty, rest)
        data == IF read.ok THEN read.data ELSE DefaultData(stmt.ty)
    IN  CASE stmt.op = "LetFlags" ->
                [ok |-> read.ok, read |-> TRUE, name |-> stmt.var,
                 value |-> data, rest |-> read.rest]
          [] stmt.op = "LetBit" ->
                [ok |-> TRUE, read |-> FALSE, name |-> stmt.field,
                 value |-> Field(stmt.field, bit, <<>>), rest |-> rest]
          [] stmt.op = "LetOpt" ->
                IF bit
                THEN [ok |-> read.ok, read |-> TRUE, name |-> stmt.field,
                      value |-> Field(stmt.field, TRUE, data), rest |-> read.rest]
                ELSE [ok |-> TRUE, read |-> FALSE, name |-> stmt.field,
                      value |-> Field(stmt.field, FALSE, <<>>), rest |-> rest]
          [] stmt.op = "Let" ->
                [ok |-> read.ok, read |-> TRUE, name |-> stmt.field,
                 value |-> Field(stmt.field, TRUE, data), rest |-> read.rest]

\* The outcome of deserialize(): Ok(value) or Err, the bytes left in the
\* buffer, and the statements that ran: for each its index, whether it
\* called a deserialize, whether that succeeded, the bytes left before it
\* and the bytes it consumed.
Outcome(ok, value, rest, trace) ==
    [ok |-> ok, value |-> value, rest |-> rest, trace |-> trace]
NoOutcome == Outcome(FALSE, <<>>, <<>>, <<>>)

\* The emitted deserialize(): the `let`s run in order, `?` returns the
\* failure at once, and the struct is assembled from the locals.
RECURSIVE DeLoop(_, _, _, _, _)
DeLoop(prog, i, locals, rest, trace) ==
    IF i > Len(prog.stmts)
    THEN Outcome(TRUE, [k \in 1..Len(prog.fields) |-> locals[prog.fields[k]]], rest, trace)
    ELSE LET stmt == prog.stmts[i]
             r == ExecDe(stmt, locals, rest)
             t == Append(trace, [stmt |-> i, read |-> r.read, ok |-> r.ok,
                                 left |-> Len(rest), used |-> Len(rest) - Len(r.rest)])
         IN  IF ~r.ok /\ stmt.try
             THEN Outcome(FALSE, <<>>, r.rest, t)
             ELSE DeLoop(prog, i + 1, (r.name :> r.value) @@ locals, r.rest, t)

RunDe(prog, bytes) == DeLoop(prog, 1, <<>>, bytes, <<>>)

(***************************************************************************)
(* The bytes a caller may hand to deserialize().                           *)
(***************************************************************************)
\* The serializer's output after the constructor id a Function writes first.
Body(d, bytes) == IF d.category = "Functions" THEN Drop(bytes, 4) ELSE bytes

\* The bytes with the first byte of the word that starts at i changed.
Corrupt(bytes, i) == [bytes EXCEPT ![i] = (@ + 1) % 256]

Inputs(d, bytes) ==
    {[kind |-> "wire", bytes |-> bytes]}
    \cup {[kind |-> "body", bytes |-> Body(d, bytes)]}
    \cup {[kind |-> "truncated", bytes |-> Take(Body(d, bytes), n)] :
            n \in 0..(Len(Body(d, bytes)) - 1)}
    \cup {[kind |-> "corrupt", bytes |-> Corrupt(Body(d, bytes), i)] :
            i \in {k \in 1..Len(Body(d, bytes)) : k % 4 = 1}}

(***************************************************************************)
(* The state machine: emit, build, serialize, deserialize, serialize       *)
(* again.                                                                  *)
(***************************************************************************)
\* No client exists: the generator runs at build time.
NetIdle ==
    /\ client = <<>>
    /\ wire = <<>>
    /\ outcome = <<>>
    /\ iter = <<>>
    /\ builder = <<>>
    /\ app = <<>>

\* write_category_mod has not been called.
ModIdle ==
    /\ definitions = <<>>
    /\ metadata = <<>>
    /\ category = "Types"
    /\ conf = <<>>
    /\ failing = {}
    /\ file = <<>>
    /\ ret = "none"
    /\ mpc = "idle"
    /\ narrowing = <<>>

Init ==
    /\ def \in Definitions
    /\ config \in BOOLEAN
    /\ val \in Structs(def.params)
    /\ pc = "start"
    /\ serProg = <<>>
    /\ deProg = None
    /\ buf = <<>>
    /\ inKind = "none"
    /\ input = <<>>
    /\ res = NoOutcome
    /\ buf2 = <<>>
    /\ ModIdle
    /\ NetIdle

\* The serializer is emitted always, the deserializer on its condition.
write_definition ==
    /\ pc = "start"
    /\ serProg' = write_serializable(def)
    /\ deProg' = IF EmitsDeserializer(def, config)
                 THEN Some(write_deserializable(def))
                 ELSE None
    /\ pc' = "emitted"
    /\ UNCHANGED <<def, config, val, buf, inKind, input, res, buf2>>
    /\ UNCHANGED modVars
    /\ UNCHANGED netVars

\* The generated crate is compiled.
Build ==
    /\ pc = "emitted"
    /\ pc' = IF TypeChecks(serProg, deProg) THEN "built" ELSE "rejected"
    /\ UNCHANGED <<def, config, val, serProg, deProg, buf, inKind, input, res, buf2>>
    /\ UNCHANGED modVars
    /\ UNCHANGED netVars

\* val.serialize(&mut buf)
Serialize ==
    /\ pc = "built"
    /\ buf' = RunSer(serProg, def, val)
    /\ pc' = "serialized"
    /\ UNCHANGED <<def, config, val, serProg, deProg, inKind, input, res, buf2>>
    /\ UNCHANGED modVars
    /\ UNCHANGED netVars

\* Name::deserialize(&mut input)
Deserialize ==
    /\ pc = "serialized"
    /\ deProg # None
    /\ \E in \in Inputs(def, buf) :
          /\ inKind' = in.kind
          /\ input' = in.bytes
          /\ res' = RunDe(deProg[1], in.bytes)
    /\ pc' = "decoded"
    /\ UNCHANGED <<def, config, val, serProg, deProg, buf, buf2>>
    /\ UNCHANGED modVars
    /\ UNCHANGED netVars

\* The decoded value is serialized again.
Reserialize ==
    /\ pc = "decoded"
    /\ res.ok
    /\ buf2' = RunSer(serProg, def, res.value)
    /\ pc' = "done"
    /\ UNCHANGED <<def, config, val, serProg, deProg, buf, inKind, input, res>>
    /\ UNCHANGED modVars
    /\ UNCHANGED netVars

Next == write_definition \/ Build \/ Serialize \/ Deserialize \/ Reserialize

Spec == Init /\ [][Next]_vars


(***************************************************************************)
(* Properties.                                                             *)
(***************************************************************************)
IsGated(p) == p.kind = "Normal" /\ p.flag # None
ParamsOf(d) == {d.params[i] : i \in 1..Len(d.params)}
Decoded == pc \in {"decoded", "done"}

\* C1: round-trip law.  For a Type-category Definition, deserializing the
\* bytes its serializer produced for a value yields that value.
C1_RoundTrip ==
    (Decoded /\ def.category = "Types" /\ inKind = "wire")
        => (res.ok /\ res.value = val)

\* A Type with an absent optional field and a set "true" field has been
\* serialized and decoded.
C1_Witness ==
    /\ pc = "decoded" /\ def.category = "Types" /\ inKind = "wire"
    /\ \E p, q \in ParamsOf(def) :
          /\ IsGated(p) /\ p.ty # "true" /\ ~FieldOf(val, p.name).some
          /\ q.ty = "true" /\ FieldOf(val, q.name).some

\* C2 as stated: the deserializer of every Definition that has one consumes
\* exactly the bytes the serializer wrote, rebuilds the value, and serializing
\* the result again gives the same bytes.
C2_MirrorsSerializer ==
    /\ (Decoded /\ inKind = "wire") => (res.ok /\ res.value = val /\ res.rest = <<>>)
    /\ (pc = "done" /\ inKind = "wire") => buf2 = buf

\* C2 amended: the deserializer consumes exactly the bytes the serializer
\* wrote after the constructor id (which only a Function's serializer writes
\* and no deserializer reads), rebuilds the value, and serializing the result
\* again gives the serializer's bytes, constructor id included.
C2_MirrorsBody ==
    /\ (Decoded /\ inKind = "body") => (res.ok /\ res.value = val /\ res.rest = <<>>)
    /\ (Decoded /\ inKind = "body" /\ def.category = "Functions")
          => Len(buf) >= 4 /\ input = Drop(buf, 4) /\ Take(buf, 4) = U32LE(def.id)
    /\ (Decoded /\ inKind = "body" /\ def.category = "Types") => input = buf
    /\ (pc = "done" /\ inKind = "body") => buf2 = buf

\* A Function with a deserializer and at least one stored field has been
\* serialized, decoded from the bytes after its id, and serialized again.
C2_Witness ==
    /\ pc = "done" /\ inKind = "body" /\ def.category = "Functions"
    /\ val # <<>> /\ \E i \in 1..Len(val) : ~val[i].some

\* The 4-byte word with only bit `index` set.
BitWord(index) == [i \in 1..4 |-> IF i = (index \div 8) + 1 THEN 2^(index % 8) ELSE 0]

\* The bitwise OR of (1 << bit_index) over the present fields bound to the
\* Flags parameter f.
RECURSIVE OrOfPresent(_, _, _)
OrOfPresent(ps, f, s) ==
    IF ps = <<>> THEN ZeroWord
    ELSE LET p == Head(ps)
         IN  WordOr(IF IsGated(p) /\ p.flag[1].name = f.name /\ FieldOf(s, p.name).some
                    THEN BitWord(p.flag[1].index) ELSE ZeroWord,
                    OrOfPresent(Tail(ps), f, s))

FlagsParams(d) == SelectSeq(d.params, LAMBDA p : p.kind = "Flags")
FlagsStmts(prog) == SelectSeq(prog, LAMBDA st : st.op = "WriteFlags")

\* The flags word written for a Flags parameter is the OR of
\* (1 << bit_index) over exactly the present fields bound to it; a Flags
\* parameter declared first puts that word at the start of the parameter bytes.
C3_FlagsWord ==
    pc = "serialized" =>
        /\ Len(FlagsStmts(serProg)) = Len(FlagsParams(def))
        /\ \A k \in 1..Len(FlagsParams(def)) :
              ExecSer(FlagsStmts(serProg)[k], def, val)
                  = OrOfPresent(def.params, FlagsParams(def)[k], val)
        /\ (def.params # <<>> /\ def.params[1].kind = "Flags")
              => Take(Body(def, buf), 4) = OrOfPresent(def.params, def.params[1], val)

\* Fields bound to bits 0 and 2: first present and second absent gives 0b001,
\* both present gives 0b101.
C3_Bits0And2 ==
    (/\ pc = "serialized" /\ def.category = "Types" /\ Len(def.params) = 3
     /\ def.params[1].kind = "Flags"
     /\ IsGated(def.params[2]) /\ def.params[2].flag[1].index = 0
     /\ IsGated(def.params[3]) /\ def.params[3].flag[1].index = 2)
        => /\ (val[1].some /\ ~val[2].some) => Take(buf, 4) = <<1, 0, 0, 0>>
           /\ (val[1].some /\ val[2].some) => Take(buf, 4) = <<5, 0, 0, 0>>

\* C3: flag-bit exactness.  The flags word is the OR of (1 << bit_index) over
\* exactly the present fields bound to the Flags parameter, 0b001 and 0b101
\* in the example with bits 0 and 2.
C3_FlagBitExactness == C3_FlagsWord /\ C3_Bits0And2

\* Both fields bound to bits 0 and 2 are present and the word 0b101 is written.
C3_Witness ==
    /\ pc = "serialized" /\ Len(def.params) = 3
    /\ def.params[1].kind = "Flags"
    /\ IsGated(def.params[2]) /\ def.params[2].flag[1].index = 0
    /\ IsGated(def.params[3]) /\ def.params[3].flag[1].index = 2
    /\ val[1].some /\ val[2].some
    /\ Take(Body(def, buf), 4) = <<5, 0, 0, 0>>

\* C4: a Function's serializer writes the constructor id first, before any
\* parameter bytes, and a Type's serializer never writes it.
C4_ConstructorId ==
    /\ (pc # "start" /\ def.category = "Functions")
          => /\ serProg # <<>> /\ serProg[1].op = "WriteId"
             /\ \A i \in 2..Len(serProg) : serProg[i].op # "WriteId"
    /\ (pc # "start" /\ def.category = "Types")
          => \A i \in 1..Len(serProg) : serProg[i].op # "WriteId"
    /\ (pc = "serialized" /\ def.category = "Functions")
          => Len(buf) >= 4 /\ Take(buf, 4) = U32LE(def.id)
    /\ (pc = "serialized" /\ def.category = "Types" /\ def.params = <<>>)
          => buf = <<>>

\* A Function with parameters has been serialized: id, then parameter bytes.
C4_Witness ==
    pc = "serialized" /\ def.category = "Functions" /\ Len(buf) > 4

\* The Definition of the scenario: sendMessage#1234abcd flags:# message:string
\* reply_to:flags.0?int = Updates (a Function).
ScenarioDef ==
    [name |-> "sendMessage", id |-> SendMessageId, category |-> "Functions",
     params |-> <<FlagsParam("flags"),
                  NormalParam("message", "string", None),
                  NormalParam("reply_to", "int", Some(Flag("flags", 0)))>>]

\* C5: the scenario.  With reply_to absent the bytes are [id][flags = 0]
\* [message]; with reply_to = 7 they are [id][flags = 1][message][7].
C5_Scenario ==
    (pc = "serialized" /\ def = ScenarioDef) =>
        LET message == SerializePayload("string", val[1].data)
        IN  /\ ~val[2].some
                => buf = <<205, 171, 52, 18>> \o <<0, 0, 0, 0>> \o message
            /\ (val[2].some /\ val[2].data = <<7>>)
                => buf = <<205, 171, 52, 18>> \o <<1, 0, 0, 0>> \o message \o <<7, 0, 0, 0>>
            /\ val[1].data = <<104, 105>> => message = <<2, 104, 105, 0>>

\* sendMessage has been serialized with the message "hi" and reply_to = 7.
C5_Witness ==
    /\ pc = "serialized" /\ def = ScenarioDef
    /\ val[1].data = <<104, 105>> /\ val[2].some /\ val[2].data = <<7>>


\* The Definition d cut down to its first n parameters, and the fields of
\* the value s that belong to them.
PrefixDef(d, n) == [d EXCEPT !.params = Take(@, n)]
PrefixVal(d, n, s) == Take(s, Len(SelectSeq(Take(d.params, n), LAMBDA p : p.kind = "Normal")))

\* The Definition d without its i-th parameter, and the value s without the
\* field `name`.
WithoutParam(d, i) == [d EXCEPT !.params = Take(@, i - 1) \o Drop(@, i)]
WithoutField(s, name) == SelectSeq(s, LAMBDA f : f.name # name)
SetField(s, name, b) == [k \in 1..Len(s) |-> IF s[k].name = name THEN [s[k] EXCEPT !.some = b] ELSE s[k]]

\* Position of the parameter called `name`.
ParamIndex(d, name) == CHOOSE i \in 1..Len(d.params) : d.params[i].name = name

\* Where the serializer output of d holds the word of its i-th parameter:
\* after everything the parameters before it contribute.
OffsetOf(d, i, s) ==
    Len(RunSer(write_serializable(PrefixDef(d, i - 1)), PrefixDef(d, i - 1),
               PrefixVal(d, i - 1, s)))

DiffPositions(a, b) == {k \in 1..Len(a) : a[k] # b[k]}

\* C6: zero-width field law.  A "true"-typed field adds no bytes of its own:
\* with the field false the output is that of the Definition without the
\* field, and setting the field changes no length and exactly one bit, the
\* field's bit in the governing flags word.
C6_ZeroWidth ==
    pc = "serialized" =>
        \A i \in 1..Len(def.params) :
            def.params[i].ty = "true" =>
                LET p == def.params[i]
                    index == p.flag[1].index
                    off == OffsetOf(def, ParamIndex(def, p.flag[1].name), val)
                    unset == RunSer(serProg, def, SetField(val, p.name, FALSE))
                    set == RunSer(serProg, def, SetField(val, p.name, TRUE))
                    d2 == WithoutParam(def, i)
                IN  /\ buf \in {unset, set}
                    /\ unset = RunSer(write_serializable(d2), d2, WithoutField(val, p.name))
                    /\ Len(set) = Len(unset)
                    /\ DiffPositions(set, unset) = {off + (index \div 8) + 1}
                    /\ set[off + (index \div 8) + 1]
                         = unset[off + (index \div 8) + 1] + 2^(index % 8)

\* A Definition with a "true" field bound to bit 2 and another parameter that
\* does carry bytes has been serialized with the field set.
C6_Witness ==
    /\ pc = "serialized"
    /\ \E p, q \in ParamsOf(def) :
          /\ p.ty = "true" /\ p.flag[1].index = 2 /\ FieldOf(val, p.name).some
          /\ q.kind = "Normal" /\ q.ty # "true" /\ FieldOf(val, q.name).some

\* What one parameter contributes to the serialized output.
Contribution(d, p, s) ==
    IF p.kind = "Flags" THEN OrOfPresent(d.params, p, s)
    ELSE IF p.ty = "true" THEN <<>>
    ELSE IF p.flag # None /\ ~FieldOf(s, p.name).some THEN <<>>
    ELSE SerializePayload(p.ty, FieldOf(s, p.name).data)

\* C7: the serialized output is the concatenation, in declared parameter
\* order, of each parameter's contribution (after the constructor id of a
\* Function): a gated parameter contributes its payload iff it is present,
\* an ungated one always.
C7_ParameterOrder ==
    pc = "serialized" =>
        /\ Body(def, buf)
             = ConcatAll([i \in 1..Len(def.params) |-> Contribution(def, def.params[i], val)])
        /\ Len(buf) = Len(Body(def, buf)) + (IF def.category = "Functions" THEN 4 ELSE 0)

\* A Definition with an absent optional parameter followed by an ungated one
\* has been serialized.
C7_Witness ==
    /\ pc = "serialized"
    /\ \E i, j \in 1..Len(def.params) :
          /\ i < j
          /\ IsGated(def.params[i]) /\ def.params[i].ty # "true"
          /\ ~FieldOf(val, def.params[i].name).some
          /\ def.params[j].kind = "Normal" /\ def.params[j].flag = None

\* No Normal parameter of d references the Flags parameter p.
Unreferenced(d, p) ==
    /\ p.kind = "Flags"
    /\ \A q \in ParamsOf(d) : ~(IsGated(q) /\ q.flag[1].name = p.name)

\* C8: unused-flag preservation.  A Flags parameter nothing references is
\* written as a 4-byte zero word, and the deserializer reads one 4-byte word
\* for it and discards it, so the parameters after it decode correctly.
C8_UnusedFlag ==
    \A i \in 1..Len(def.params) :
        Unreferenced(def, def.params[i]) =>
            /\ pc = "serialized" =>
                  /\ Len(FlagsStmts(serProg)) = Len(FlagsParams(def))
                  /\ SubSeq(buf, OffsetOf(def, i, val) + 1, OffsetOf(def, i, val) + 4)
                        = ZeroWord
                  /\ OffsetOf(def, i + 1, val) = OffsetOf(def, i, val) + 4
            /\ (Decoded /\ Len(res.trace) >= i) =>
                  /\ res.trace[i].read
                  /\ res.trace[i].ok => res.trace[i].used = 4
                  /\ deProg[1].stmts[i].var = "_" \o def.params[i].name
                  /\ \A k \in 1..Len(deProg[1].fields) :
                        deProg[1].fields[k] # deProg[1].stmts[i].var
            /\ (Decoded /\ inKind = "body") =>
                  (res.ok /\ res.value = val /\ res.rest = <<>>)

\* A Definition with an unused Flags parameter followed by a parameter that
\* carries bytes has been serialized and decoded.
C8_Witness ==
    /\ pc = "decoded" /\ inKind = "body" /\ res.ok
    /\ \E i, j \in 1..Len(def.params) :
          /\ i < j
          /\ Unreferenced(def, def.params[i])
          /\ def.params[j].kind = "Normal" /\ def.params[j].flag = None

\* Bit `index` of a 4-byte word is set.
BitSet(word, index) == (word[(index \div 8) + 1] \div 2^(index % 8)) % 2 = 1

\* The bytes deserialize() had consumed before its i-th statement ran.
ReadOffset(i) == Len(input) - res.trace[i].left

\* The flags word the deserializer read for the Flags parameter `name`.
WordRead(name) ==
    SubSeq(input, ReadOffset(ParamIndex(def, name)) + 1,
           ReadOffset(ParamIndex(def, name)) + 4)

\* The size on the wire of the payload of type ty that starts the bytes b.
PayloadSize(ty, b) ==
    IF ty = "string" THEN 1 + b[1] + PadLen(1 + b[1]) ELSE 4

\* C9: in the deserializer a "true"-typed parameter consumes no bytes and is
\* the governing bit of the flags word read before; a gated parameter reads
\* one payload and is present iff that bit is set, else reads nothing and is
\* absent; the struct holds the Normal parameters only, in declaration order.
C9_Deserializer ==
    Decoded =>
        /\ \A i \in 1..Len(res.trace) :
              LET p == def.params[i]
                  e == res.trace[i]
                  bit == BitSet(WordRead(p.flag[1].name), p.flag[1].index)
              IN  /\ e.stmt = i
                  /\ p.ty = "true" =>
                        /\ ~e.read /\ e.used = 0
                        /\ res.ok => FieldOf(res.value, p.name).some = bit
                  /\ (IsGated(p) /\ p.ty # "true") =>
                        /\ e.read = bit
                        /\ (bit /\ e.ok) =>
                              e.used = PayloadSize(p.ty, Drop(input, ReadOffset(i)))
                        /\ ~bit => e.used = 0
                        /\ res.ok => FieldOf(res.value, p.name).some = bit
        /\ res.ok =>
              LET normals == SelectSeq(def.params, LAMBDA p : p.kind = "Normal")
              IN  /\ Len(res.value) = Len(normals)
                  /\ \A k \in 1..Len(normals) : res.value[k].name = normals[k].name

\* A value with a set "true" field and an absent optional field has been
\* decoded.
C9_Witness ==
    /\ pc = "decoded" /\ res.ok
    /\ \E p, q \in ParamsOf(def) :
          /\ p.ty = "true" /\ FieldOf(res.value, p.name).some
          /\ IsGated(q) /\ q.ty # "true" /\ ~FieldOf(res.value, q.name).some

\* C10: a read that fails ends deserialize() with that failure: no statement
\* runs after it and no struct is returned; a struct is returned only when
\* every read succeeded.  Truncated input always fails, and so does a Bool
\* whose constructor id is not one of its two.
C10_FailurePropagates ==
    Decoded =>
        /\ \A k \in 1..Len(res.trace) :
              ~res.trace[k].ok => (k = Len(res.trace) /\ ~res.ok /\ res.value = <<>>)
        /\ res.ok => Len(res.trace) = Len(def.params)
        /\ ~res.ok => (res.trace # <<>> /\ ~res.trace[Len(res.trace)].ok)
        /\ inKind = "truncated" => ~res.ok
        /\ (inKind = "corrupt" /\ \A p \in ParamsOf(def) : p.ty = "Bool") => ~res.ok

\* A corrupt nested value made deserialize() fail before the last parameter.
C10_Witness ==
    /\ pc = "decoded" /\ inKind = "corrupt" /\ ~res.ok
    /\ Len(res.trace) < Len(def.params)
    /\ res.rest # <<>>

\* C11: a deserializer is emitted exactly for a Type-category Definition, for
\* any Definition when deserializable_functions is set, and for the
\* Definition named sendMessage; any other Function gets none.
C11_DeserializerEmitted ==
    pc # "start" =>
        /\ (deProg # None) <=>
               (def.category = "Types" \/ config \/ def.name = "sendMessage")
        /\ (def.category = "Functions" /\ def.name # "sendMessage" /\ ~config)
               => deProg = None
        /\ deProg # None => deProg[1] = write_deserializable(def)

\* sendMessage, a Function, got its deserializer with the option off.
C11_Witness ==
    /\ pc # "start" /\ ~config
    /\ def.category = "Functions" /\ def.name = "sendMessage"
    /\ deProg # None


(***************************************************************************)
(* write_category_mod: the schema it is handed.                            *)
(***************************************************************************)
\* The longest Definition list.
MaxDefs == 3

\* grammers_tl_parser::tl::Type, as far as structs.rs reads it.
Type(name, generic_ref) == [name |-> name, generic_ref |-> generic_ref]

\* A Definition with the namespace and the result type the assembler reads;
\* namespace is the first (and only) namespace component, "" for none.
SchemaDef(name, id, cat, ns, ty, params) ==
    [name |-> name, id |-> id, category |-> cat, params |-> params,
     namespace |-> ns, ty |-> ty]

\* Definitions honouring the schema invariant.
WellFormed ==
    { SchemaDef("updateShort", 1001, "Types", "", Type("Update", FALSE),
                <<NormalParam("peer", "int", None)>>),
      SchemaDef("updateNew", 1002, "Types", "", Type("Update", FALSE),
                <<FlagsParam("flags"),
                  NormalParam("message", "bytes", Some(Flag("flags", 0))),
                  NormalParam("next", "Update", Some(Flag("flags", 2)))>>),
      SchemaDef("sentCode", 1003, "Types", "auth", Type("auth.SentCode", FALSE), <<>>),
      SchemaDef("boolTrue", 1004, "Types", "", Type("Bool", FALSE), <<>>),
      SchemaDef("sendMessage", SendMessageId, "Functions", "messages",
                Type("Updates", FALSE),
                <<FlagsParam("flags"),
                  NormalParam("silent", "true", Some(Flag("flags", 0))),
                  NormalParam("message", "string", None)>>),
      SchemaDef("setTyping", 1006, "Functions", "messages", Type("Bool", FALSE),
                <<NormalParam("peer", "int", None)>>) }

\* A Definition breaking it: two parameters on bit 0 of `flags`, and a flag
\* reference to `flags2`, a Flags parameter the Definition does not have.
IllFormed ==
    { SchemaDef("chatFull", 1008, "Types", "messages", Type("messages.ChatFull", FALSE),
                <<FlagsParam("flags"),
                  NormalParam("peer", "int", Some(Flag("flags", 0))),
                  NormalParam("silent", "true", Some(Flag("flags", 0))),
                  NormalParam("about", "string", Some(Flag("flags2", 2)))>>) }

Schema == WellFormed \cup IllFormed

\* The Definition lists: distinct Definitions of the schema in any order.
RECURSIVE DefLists(_)
DefLists(n) ==
    IF n = 0 THEN {<<>>}
    ELSE LET shorter == DefLists(n - 1)
         IN  shorter \cup UNION {{Append(ds, d) : d \in Schema \ {ds[i] : i \in 1..Len(ds)}} :
                                    ds \in {l \in shorter : Len(l) = n - 1}}

\* crate::Config
Configs ==
    [impl_debug : BOOLEAN, impl_serde : BOOLEAN,
     deserializable_functions : BOOLEAN, impl_from_enum : BOOLEAN]

(***************************************************************************)
(* Collaborators of write_category_mod that live outside structs.rs.       *)
(***************************************************************************)
\* The namespaces of the schema in ascending lexicographic order, which is
\* the order `sort()` gives a Vec<&String>.
Namespaces == <<"", "auth", "messages">>

\* crate::ignore_type: the built-in types no binding is generated for.
ignore_type(ty) == ty.name \in {"Bool"}

\* grouper::group_by_ns: the Definitions of the category, partitioned by
\* namespace, each group in input order.
group_by_ns(defs, cat) ==
    LET ofCat == SelectSeq(defs, LAMBDA d : d.category = cat)
        keys == {ofCat[i].namespace : i \in 1..Len(ofCat)}
    IN  [key \in keys |-> SelectSeq(ofCat, LAMBDA d : d.namespace = key)]

\* The types of the values a Definition's struct holds.
ParamTypes(d) ==
    {d.params[i].ty : i \in {k \in 1..Len(d.params) : d.params[k].kind = "Normal"}}

\* Whether a value of one of the types `from` can hold a value of `target`.
RECURSIVE Reaches(_, _, _, _)
Reaches(defs, from, target, seen) ==
    IF target \in from THEN TRUE
    ELSE LET inside == UNION {ParamTypes(defs[i]) :
                                i \in {k \in 1..Len(defs) :
                                         /\ defs[k].category = "Types"
                                         /\ defs[k].ty.name \in from}}
             next == inside \ (seen \cup from)
         IN  IF next = {} THEN FALSE
             ELSE Reaches(defs, next, target, seen \cup from)

\* Metadata::new: the whole-schema facts, computed before any emitter runs.
Metadata_new(defs) ==
    LET types == SelectSeq(defs, LAMBDA d : d.category = "Types")
    IN  [defs_with_type |->
            [name \in {types[i].ty.name : i \in 1..Len(types)} |->
                SelectSeq(types, LAMBDA d : d.ty.name = name)],
         recursing_defs |->
            {types[i].id : i \in {k \in 1..Len(types) :
                Reaches(defs, ParamTypes(types[k]), types[k].ty.name, {})}}]

defs_with_type(md, ty) ==
    IF ty.name \in DOMAIN md.defs_with_type THEN md.defs_with_type[ty.name] ELSE <<>>

is_recursive_def(md, d) == d.id \in md.recursing_defs

\* rustifier::definitions::type_name and variant_name: the name in CamelCase.
CamelCase ==
    [updateShort |-> "UpdateShort", updateNew |-> "UpdateNew",
     sentCode |-> "SentCode", boolTrue |-> "BoolTrue",
     sendMessage |-> "SendMessage", setTyping |-> "SetTyping",
     chatFull |-> "ChatFull", inputPeerSelf |-> "InputPeerSelf",
     getState |-> "GetState"]
type_name(d) == CamelCase[d.name]
variant_name(d) == CamelCase[d.name]

\* rustifier::types::qual_name: the Rust path of a TL type.
RustType(name) ==
    CASE name = "int" -> "i32"
      [] name = "string" -> "String"
      [] name = "bytes" -> "Vec<u8>"
      [] name = "Bool" -> "bool"
      [] name \in {"X", "!X"} -> "X"
      [] OTHER -> "crate::enums::" \o name
types_qual_name(ty) == RustType(ty.name)

\* rustifier::parameters::qual_name: the Rust type of a field.
parameters_qual_name(param) ==
    IF param.ty = "true" THEN "bool"
    ELSE IF param.flag # None THEN "Option<" \o RustType(param.ty) \o ">"
    ELSE RustType(param.ty)

\* Type::generic_ref of a parameter's type (`!X` in the schema).
generic_ref(param) == param.kind = "Normal" /\ param.ty = "!X"

(***************************************************************************)
(* The writer `file: &mut W` and what the emitters write to it.  A chunk   *)
(* is the text of one write!/writeln! call; the bodies of serialize() and  *)
(* deserialize() are written one emitted statement per chunk.              *)
(***************************************************************************)
Chunk(indent, text, nl) == [indent |-> indent, text |-> text, nl |-> nl, stmt |-> Stmt]
Line(indent, text) == Chunk(indent, text, TRUE)
StmtLine(indent, s) == [indent |-> indent, text |-> <<"        ">>, nl |-> TRUE, stmt |-> s]

\* A writer that fails at the calls whose number is in `fails`.
Writer(fails) ==
    [written |-> <<>>, calls |-> 0, err |-> 0, fails |-> fails, panicked |-> FALSE]

\* The calls among the n next ones at which the writer fails.
FailedCalls(w, n) == {k \in (w.calls + 1)..(w.calls + n) : k \in w.fails}
Min(S) == CHOOSE k \in S : \A j \in S : k <= j

\* Mutant: the io::Result of a write is dropped and the emitter goes on.
WriteAllUnchecked(w, chunks) ==
    LET n == Len(chunks)
    IN  [w EXCEPT !.calls = @ + n,
                  !.written = @ \o SelectSeq([i \in 1..n |->
                                    IF (w.calls + i) \in w.fails
                                    THEN Chunk("", <<>>, FALSE) ELSE chunks[i]],
                                    LAMBDA c : c # Chunk("", <<>>, FALSE)),
                  !.err = IF @ = 0 /\ FailedCalls(w, n) # {}
                          THEN Min(FailedCalls(w, n)) ELSE @]

\* A run of `write!(file, ..)?;` / `writeln!(file, ..)?;` statements, one per
\* chunk: the first write that fails returns from the enclosing functions,
\* so nothing after it is written; after an earlier failure or a panic
\* nothing runs.
WriteAll(w, chunks) ==
    LET n == Len(chunks)
        failed == FailedCalls(w, n)
    IN  IF w.err # 0 \/ w.panicked THEN w
        ELSE IF failed = {}
             THEN [w EXCEPT !.calls = @ + n, !.written = @ \o chunks]
             ELSE [w EXCEPT !.calls = Min(failed), !.err = Min(failed),
                            !.written = @ \o Take(chunks, Min(failed) - w.calls - 1)]

\* One `writeln!(file, ..)?;`.
write(w, chunk) == WriteAll(w, <<chunk>>)

\* `<X: bounds, Y: bounds>`, or nothing without generic parameters.
get_generic_param_list(d, trait_bounds) ==
    LET gs == SelectSeq(d.params, generic_ref)
    IN  IF gs = <<>> THEN <<>>
        ELSE <<"<">>
             \o ConcatAll([i \in 1..Len(gs) |->
                    (IF i = 1 THEN <<>> ELSE <<", ">>) \o <<RustType(gs[i].ty), trait_bounds>>])
             \o <<">">>

write_struct(w, indent, d, md, cfg) ==
    WriteAll(w,
        (IF cfg.impl_debug THEN <<Line(indent, <<"#[derive(Debug)]">>)>> ELSE <<>>)
        \o (IF cfg.impl_serde
            THEN <<Line(indent, <<"#[derive(serde_derive::Serialize, serde_derive::Deserialize)]">>)>>
            ELSE <<>>)
        \o <<Line(indent, <<"#[derive(Clone, PartialEq)]">>),
             Chunk(indent, <<"pub struct", type_name(d)>> \o get_generic_param_list(d, "")
                           \o <<"{">>, FALSE),
             Line("", <<>>)>>
        \o ConcatAll([i \in 1..Len(d.params) |->
              LET param == d.params[i]
              IN  IF param.kind = "Flags" THEN <<>>
                  ELSE (IF cfg.impl_serde /\ param.ty = "bytes"
                        THEN <<Line(indent, <<"    #[serde(with = \"serde_bytes\")]">>)>>
                        ELSE <<>>)
                       \o <<Line(indent, <<"    pub", attr_name(param), ":",
                                           parameters_qual_name(param), ",">>)>>])
        \o <<Line(indent, <<"}">>)>>)

write_identifiable(w, indent, d, md) ==
    WriteAll(w,
        <<Line(indent, <<"impl">> \o get_generic_param_list(d, "")
                       \o <<"crate::Identifiable for", type_name(d)>>
                       \o get_generic_param_list(d, "") \o <<"{">>),
          Line(indent, <<"    const CONSTRUCTOR_ID: u32 =", ToString(d.id), ";">>),
          Line(indent, <<"}">>)>>)

\* write_serializable, written to the file.
write_serializable_to(w, indent, d, md) ==
    LET stmts == write_serializable(d)
    IN  WriteAll(w,
            <<Line(indent, <<"impl">> \o get_generic_param_list(d, ": crate::Serializable")
                           \o <<"crate::Serializable for", type_name(d)>>
                           \o get_generic_param_list(d, "") \o <<"{">>),
              Line(indent, <<"    fn serialize(&self,",
                             IF d.category = "Types" /\ d.params = <<>> THEN "_" ELSE "",
                             "buf: &mut impl Extend<u8>) {">>)>>
            \o [i \in 1..Len(stmts) |-> StmtLine(indent, stmts[i])]
            \o <<Line(indent, <<"    }">>), Line(indent, <<"}">>)>>)

\* The position of the first statement at which write_deserializable
\* panics, 0 when there is none.
PanicsAt(stmts) ==
    LET at == {i \in 1..Len(stmts) : stmts[i].op = "Panic"}
    IN  IF at = {} THEN 0 ELSE Min(at)

\* write_deserializable, written to the file. Before a parameter's `match`
\* the indentation of its line is written (line 275); then the `.expect(..)`
\* of lines 291-293 unwinds through write_definition and write_category_mod.
write_deserializable_to(w, indent, d, md) ==
    LET prog == write_deserializable(d)
        at == PanicsAt(prog.stmts)
        head == <<Line(indent, <<"impl">> \o get_generic_param_list(d, ": crate::Deserializable")
                           \o <<"crate::Deserializable for", type_name(d)>>
                           \o get_generic_param_list(d, "") \o <<"{">>),
                  Line(indent, <<"    fn deserialize(",
                             IF d.params = <<>> THEN "_" ELSE "",
                             "buf: crate::deserialize::Buffer) -> crate::deserialize::Result<Self> {">>)>>
        w1 == WriteAll(w, head \o [i \in 1..(at - 1) |-> StmtLine(indent, prog.stmts[i])]
                               \o <<Chunk(indent, <<"        ">>, FALSE)>>)
    IN  IF at # 0
        THEN IF w1.err # 0 \/ w1.panicked THEN w1 ELSE [w1 EXCEPT !.panicked = TRUE]
        ELSE
        WriteAll(w,
            <<Line(indent, <<"impl">> \o get_generic_param_list(d, ": crate::Deserializable")
                           \o <<"crate::Deserializable for", type_name(d)>>
                           \o get_generic_param_list(d, "") \o <<"{">>),
              Line(indent, <<"    fn deserialize(",
                             IF d.params = <<>> THEN "_" ELSE "",
                             "buf: crate::deserialize::Buffer) -> crate::deserialize::Result<Self> {">>)>>
            \o [i \in 1..Len(prog.stmts) |-> StmtLine(indent, prog.stmts[i])]
            \o <<Line(indent, <<"        Ok(", type_name(d), "{">>)>>
            \o [i \in 1..Len(prog.fields) |->
                    Line(indent, <<"            ", prog.fields[i], ",">>)]
            \o <<Line(indent, <<"        })">>),
                 Line(indent, <<"    }">>),
                 Line(indent, <<"}">>)>>)

write_rpc(w, indent, d, md) ==
    WriteAll(w,
        <<Line(indent, <<"impl">> \o get_generic_param_list(d, ": crate::RemoteCall")
                       \o <<"crate::RemoteCall for", type_name(d)>>
                       \o get_generic_param_list(d, "") \o <<"{">>),
          Line(indent, <<"    type Return =", types_qual_name(d.ty),
                         IF d.ty.generic_ref THEN "::Return" ELSE "", ";">>),
          Line(indent, <<"}">>)>>)

\* Mutant: the single-arm `From` is emitted for every Definition.
write_impl_from_always_infallible(w, indent, d, md) ==
    LET cls == types_qual_name(d.ty)
    IN  WriteAll(w,
            <<Line(indent, <<"impl ", "", "From<", cls, "> for ", type_name(d), " {">>),
              Line(indent, <<"    fn ", "", "from(x: ", cls, ") -> ", "", "Self", "", " {">>),
              Line(indent, <<"        match x {">>),
              Line(indent, <<"            ", cls, "::", variant_name(d),
                             IF d.params = <<>> THEN "" ELSE "(x)",
                             " => ", "",
                             IF is_recursive_def(md, d) THEN "*" ELSE "",
                             IF d.params = <<>> THEN type_name(d) ELSE "x",
                             IF d.params = <<>> THEN " {}" ELSE "",
                             "", ",">>),
              Line(indent, <<"        }">>),
              Line(indent, <<"    }">>),
              Line(indent, <<"}">>)>>)

\* `impl From<Enum> for Name` when the Definition is the only one of its
\* type, `impl TryFrom<Enum> for Name` with `_ => Err(())` otherwise.
write_impl_from(w, indent, d, md) ==
    LET infallible == Len(defs_with_type(md, d.ty)) = 1
        cls == types_qual_name(d.ty)
    IN  WriteAll(w,
            <<Line(indent, <<"impl ", IF infallible THEN "" ELSE "Try", "From<", cls,
                             "> for ", type_name(d), " {">>)>>
            \o (IF infallible THEN <<>> ELSE <<Line(indent, <<"    type Error = ();">>)>>)
            \o <<Line(indent, <<"    fn ", IF infallible THEN "" ELSE "try_", "from(x: ", cls,
                                ") -> ", IF infallible THEN "" ELSE "Result<", "Self",
                                IF infallible THEN "" ELSE ", Self::Error>", " {">>),
                 Line(indent, <<"        match x {">>),
                 Line(indent, <<"            ", cls, "::", variant_name(d),
                                IF d.params = <<>> THEN "" ELSE "(x)",
                                " => ",
                                IF infallible THEN "" ELSE "Ok(",
                                IF is_recursive_def(md, d) THEN "*" ELSE "",
                                IF d.params = <<>> THEN type_name(d) ELSE "x",
                                IF d.params = <<>> THEN " {}" ELSE "",
                                IF infallible THEN "" ELSE ")", ",">>)>>
            \o (IF infallible THEN <<>> ELSE <<Line(indent, <<"            _ => Err(())">>)>>)
            \o <<Line(indent, <<"        }">>),
                 Line(indent, <<"    }">>),
                 Line(indent, <<"}">>)>>)

\* Mutant: a blank line is written before every Definition but the first
\* of the file.
write_definition_separated(w, indent, d, md, cfg) ==
    LET w0 == IF w.written = <<>> THEN w ELSE write(w, Line("", <<>>))
        w1 == write_struct(w0, indent, d, md, cfg)
        w2 == write_identifiable(w1, indent, d, md)
        w3 == write_serializable_to(w2, indent, d, md)
        w4 == IF EmitsDeserializer(d, cfg.deserializable_functions)
              THEN write_deserializable_to(w3, indent, d, md)
              ELSE w3
        w5 == IF d.category = "Functions" THEN write_rpc(w4, indent, d, md) ELSE w4
    IN  IF d.category = "Types" /\ cfg.impl_from_enum
        THEN write_impl_from(w5, indent, d, md)
        ELSE w5

\* Mutant: with impl_serde the Serializable impl is left to serde.
write_definition_serde_for_serializable(w, indent, d, md, cfg) ==
    LET w1 == write_struct(w, indent, d, md, cfg)
        w2 == write_identifiable(w1, indent, d, md)
        w3 == IF cfg.impl_serde THEN w2 ELSE write_serializable_to(w2, indent, d, md)
        w4 == IF EmitsDeserializer(d, cfg.deserializable_functions)
              THEN write_deserializable_to(w3, indent, d, md)
              ELSE w3
        w5 == IF d.category = "Functions" THEN write_rpc(w4, indent, d, md) ELSE w4
    IN  IF d.category = "Types" /\ cfg.impl_from_enum
        THEN write_impl_from(w5, indent, d, md)
        ELSE w5

\* Mutant: the RemoteCall impl is written without asking for the category.
write_definition_rpc_for_all(w, indent, d, md, cfg) ==
    LET w1 == write_struct(w, indent, d, md, cfg)
        w2 == write_identifiable(w1, indent, d, md)
        w3 == write_serializable_to(w2, indent, d, md)
        w4 == IF EmitsDeserializer(d, cfg.deserializable_functions)
              THEN write_deserializable_to(w3, indent, d, md)
              ELSE w3
        w5 == write_rpc(w4, indent, d, md)
    IN  IF d.category = "Types" /\ cfg.impl_from_enum
        THEN write_impl_from(w5, indent, d, md)
        ELSE w5

\* Everything write_definition writes for one Definition.
write_definition_to(w, indent, d, md, cfg) ==
    LET w1 == write_struct(w, indent, d, md, cfg)
        w2 == write_identifiable(w1, indent, d, md)
        w3 == write_serializable_to(w2, indent, d, md)
        w4 == IF EmitsDeserializer(d, cfg.deserializable_functions)
              THEN write_deserializable_to(w3, indent, d, md)
              ELSE w3
        w5 == IF d.category = "Functions" THEN write_rpc(w4, indent, d, md) ELSE w4
    IN  IF d.category = "Types" /\ cfg.impl_from_enum
        THEN write_impl_from(w5, indent, d, md)
        ELSE w5

\* Mutant: the filter asks ignore_type alone, for Functions too.
RetainedNotIgnored(d) == ~ignore_type(d.ty)

\* The filter of write_category_mod's inner loop.
Retained(d) == d.category = "Functions" \/ ~ignore_type(d.ty)

RECURSIVE WriteDefinitions(_, _, _, _, _)
WriteDefinitions(w, indent, defs, md, cfg) ==
    IF defs = <<>> THEN w
    ELSE WriteDefinitions(write_definition_to(w, indent, Head(defs), md, cfg),
                          indent, Tail(defs), md, cfg)

\* Mutant: the `}` that ends an inner mod is not written.
WriteGroupUnclosed(w, key, group, cat, md, cfg) ==
    LET indent == IF key = "" THEN "" ELSE "    "
        w1 == IF key = "" THEN w ELSE write(w, Line("", <<"pub mod ", key, " {">>))
        w2 == IF cat = "Types" /\ cfg.impl_from_enum
              THEN WriteAll(w1, <<Line(indent, <<"#[allow(unused_imports)]">>),
                                  Line(indent, <<"use std::convert::TryFrom;">>)>>)
              ELSE w1
    IN  WriteDefinitions(w2, indent, SelectSeq(group, Retained), md, cfg)

\* One iteration of write_category_mod's loop over the sorted keys.
WriteGroup(w, key, group, cat, md, cfg) ==
    LET indent == IF key = "" THEN "" ELSE "    "
        w1 == IF key = "" THEN w ELSE write(w, Line("", <<"pub mod ", key, " {">>))
        w2 == IF cat = "Types" /\ cfg.impl_from_enum
              THEN WriteAll(w1, <<Line(indent, <<"#[allow(unused_imports)]">>),
                                  Line(indent, <<"use std::convert::TryFrom;">>)>>)
              ELSE w1
        w3 == WriteDefinitions(w2, indent, SelectSeq(group, Retained), md, cfg)
    IN  IF key # "" THEN write(w3, Line("", <<"}">>)) ELSE w3

\* `sorted_keys.sort()`: the keys of the map in ascending order.
sorted_keys(grouped) == SelectSeq(Namespaces, LAMBDA key : key \in DOMAIN grouped)

RECURSIVE WriteGroups(_, _, _, _, _, _)
WriteGroups(w, keys, grouped, cat, md, cfg) ==
    IF keys = <<>> THEN w
    ELSE WriteGroups(WriteGroup(w, Head(keys), grouped[Head(keys)], cat, md, cfg),
                     Tail(keys), grouped, cat, md, cfg)

\* Mutant: without `sorted_keys.sort()` the groups come in the order in which
\* their namespaces first appear in the input.
write_category_mod_unsorted(w, cat, defs, md, cfg) ==
    LET grouped == group_by_ns(defs, cat)
        ofCat == SelectSeq(defs, LAMBDA d : d.category = cat)
        first == SelectSeq([i \in 1..Len(ofCat) |->
                              IF \E j \in 1..(i - 1) : ofCat[j].namespace = ofCat[i].namespace
                              THEN "-" ELSE ofCat[i].namespace],
                           LAMBDA key : key # "-")
    IN  WriteGroups(w, first, grouped, cat, md, cfg)

\* write_category_mod on the writer w: the writer it leaves behind.
write_category_mod_to(w, cat, defs, md, cfg) ==
    LET grouped == group_by_ns(defs, cat)
    IN  WriteGroups(w, sorted_keys(grouped), grouped, cat, md, cfg)

\* The io::Result a function returns for the writer it leaves behind, or
\* the panic that unwound through it.
IoResult(w) ==
    IF w.panicked THEN "panic" ELSE IF w.err = 0 THEN "Ok" ELSE "Err"

(***************************************************************************)
(* The emitted From / TryFrom impl as Rust reads it.                       *)
(***************************************************************************)
\* The values of the enum generated for a type: one variant per Definition
\* of the type, holding that Definition's struct, boxed when the Definition
\* is recursive; a Definition without parameters is a unit variant.
EnumValues(md, ty) ==
    LET ds == defs_with_type(md, ty)
    IN  {[variant |-> variant_name(ds[i]), struct |-> type_name(ds[i]),
          boxed |-> is_recursive_def(md, ds[i]) /\ ds[i].params # <<>>,
          unit |-> ds[i].params = <<>>] : i \in 1..Len(ds)}

NoNarrowing == [target |-> "", value |-> <<>>, count |-> 0, kind |-> "", struct |-> ""]

\* Where the impl for the struct `name` starts in the written text; 0 if
\* there is none.
ImplFromAt(written, name) ==
    LET at == {i \in 1..Len(written) :
                 /\ Len(written[i].text) = 7
                 /\ written[i].text[1] = "impl " /\ written[i].text[3] = "From<"
                 /\ written[i].text[6] = name}
    IN  IF at = {} THEN 0 ELSE CHOOSE i \in at : TRUE

\* `Name::from(x)` / `Name::try_from(x)` for the impl at chunk i: "rejected"
\* when rustc does not accept the impl (trait, signature and arm disagree,
\* the match is not exhaustive, or a Box is returned as Self).
ExecFrom(written, i, md, ty, x) ==
    LET try == written[i].text[2] = "Try"
        hasError == written[i + 1].text = <<"    type Error = ();">>
        f == i + (IF hasError THEN 2 ELSE 1)
        fn == written[f].text
        arm == written[f + 2].text
        wildcard == written[f + 3].text = <<"            _ => Err(())">>
        result == fn[6] = "Result<"
        wraps == arm[7] = "Ok("
        binds == arm[5] = "(x)"
        accepted ==
            /\ try = hasError /\ try = (fn[2] = "try_") /\ try = result
            /\ wraps = result /\ wraps = (arm[11] = ")")
            /\ wildcard \/ \A y \in EnumValues(md, ty) : y.variant = arm[4]
            /\ \A y \in EnumValues(md, ty) :
                  y.variant = arm[4] =>
                      /\ binds = ~y.unit
                      /\ (arm[8] = "*") = y.boxed
                      /\ arm[9] = (IF y.unit THEN y.struct ELSE "x")
    IN  IF ~accepted THEN [kind |-> "rejected", struct |-> ""]
        ELSE IF x.variant = arm[4]
             THEN [kind |-> IF wraps THEN "Ok" ELSE "Self", struct |-> x.struct]
             ELSE [kind |-> "Err", struct |-> ""]

(***************************************************************************)
(* The state machine of one write_category_mod call and of the use of the  *)
(* conversions it emitted.                                                 *)
(***************************************************************************)
\* The generator's serializer round trip is not running.
GenIdle ==
    /\ def = <<>>
    /\ config = FALSE
    /\ val = <<>>
    /\ pc = "idle"
    /\ serProg = <<>>
    /\ deProg = None
    /\ buf = <<>>
    /\ inKind = "none"
    /\ input = <<>>
    /\ res = NoOutcome
    /\ buf2 = <<>>

\* The writer fails at no call, or at one of the calls the run would make:
\* the first, the last, or every fifth.
FailureSets(cat, defs, md, cfg) ==
    LET n == write_category_mod_to(Writer({}), cat, defs, md, cfg).calls
    IN  {{}} \cup {{k} : k \in {j \in 1..n : j = 1 \/ j = n \/ j % 5 = 0}}

InitMod ==
    /\ GenIdle
    /\ definitions \in DefLists(MaxDefs)
    /\ metadata = Metadata_new(definitions)
    /\ category \in Categories
    /\ conf \in Configs
    /\ failing = {}
    /\ file = Writer({})
    /\ ret = "none"
    /\ mpc = "start"
    /\ narrowing = NoNarrowing
    /\ NetIdle

\* write_category_mod(&mut file, category, &definitions, &metadata, &config),
\* on a writer that fails where the environment makes it fail.
write_category_mod ==
    /\ mpc = "start"
    /\ \E fails \in FailureSets(category, definitions, metadata, conf) :
          /\ failing' = fails
          /\ file' = write_category_mod_to(Writer(fails), category, definitions,
                                           metadata, conf)
    /\ ret' = IoResult(file')
    /\ mpc' = "returned"
    /\ UNCHANGED <<definitions, metadata, category, conf, narrowing>>
    /\ UNCHANGED genVars
    /\ UNCHANGED netVars

\* A value of the enum of a retained Definition's type is narrowed to that
\* Definition's struct by the impl the run emitted for it.
Narrow ==
    /\ mpc = "returned"
    /\ ret = "Ok"
    /\ \E i \in 1..Len(definitions) :
          LET d == definitions[i]
              at == ImplFromAt(file.written, type_name(d))
          IN  /\ at # 0
              /\ \E x \in EnumValues(metadata, d.ty) :
                    LET out == ExecFrom(file.written, at, metadata, d.ty, x)
                    IN  narrowing' = [target |-> type_name(d), value |-> x,
                                      count |-> Len(defs_with_type(metadata, d.ty)),
                                      kind |-> out.kind, struct |-> out.struct]
    /\ mpc' = "narrowed"
    /\ UNCHANGED <<definitions, metadata, category, conf, failing, file, ret>>
    /\ UNCHANGED genVars
    /\ UNCHANGED netVars

NextMod == write_category_mod \/ Narrow

SpecMod == InitMod /\ [][NextMod]_vars

(***************************************************************************)
(* Properties of write_category_mod and of what it emits.                  *)
(***************************************************************************)
Returned == mpc \in {"returned", "narrowed"}

\* C12: narrowing with the emitted conversion.  When the type of the target
\* Definition has one Definition the conversion is a From that returns the
\* struct; when it has several it is a TryFrom that returns Err(()) for a
\* value of another variant and Ok(struct) for a value of the target's own
\* variant.  The emitted impl is always one rustc accepts (its match is
\* exhaustive), so no narrowing crashes.
C12_VariantConversion ==
    mpc = "narrowed" =>
        /\ narrowing.kind # "rejected"
        /\ narrowing.count >= 1
        /\ narrowing.count = 1 =>
              (narrowing.kind = "Self" /\ narrowing.struct = narrowing.target)
        /\ (narrowing.count > 1 /\ narrowing.value.struct # narrowing.target) =>
              narrowing.kind = "Err"
        /\ (narrowing.count > 1 /\ narrowing.value.struct = narrowing.target) =>
              (narrowing.kind = "Ok" /\ narrowing.struct = narrowing.target)

\* A value tagged UpdateNew was narrowed to UpdateShort, one of two
\* Definitions of Update, and gave the wrong-variant error.
C12_Witness ==
    /\ mpc = "narrowed"
    /\ narrowing.count > 1
    /\ narrowing.target = "UpdateShort"
    /\ narrowing.value.variant = "UpdateNew" /\ narrowing.value.boxed
    /\ narrowing.kind = "Err"

\* The input lists that hold the same Definitions as `defs`.
Orders(defs) ==
    {[i \in 1..Len(defs) |-> defs[p[i]]] : p \in Permutations(1..Len(defs))}

\* What a run without write failures writes for the list `defs`.
Output(cat, defs, cfg) ==
    write_category_mod_to(Writer({}), cat, defs, Metadata_new(defs), cfg).written

\* The Definitions of one namespace and category, in the order of the list.
OfNamespace(defs, cat, ns) ==
    SelectSeq(defs, LAMBDA d : d.category = cat /\ d.namespace = ns)

IsOpen(c) == Len(c.text) = 3 /\ c.text[1] = "pub mod "
IsClose(c) == c.indent = "" /\ c.text = <<"}">>
IsStruct(c) == Len(c.text) >= 2 /\ c.text[1] = "pub struct"
OpenAt(W) == {i \in 1..Len(W) : IsOpen(W[i])}
\* A `}` at column 0 after the first `pub mod` ends a mod.
CloseAt(W) == {i \in 1..Len(W) : IsClose(W[i]) /\ \E j \in OpenAt(W) : j < i}

KeyRank(key) == CHOOSE i \in 1..Len(Namespaces) : Namespaces[i] = key

\* The names of the structs written at the chunks lo..hi, in order.
StructsIn(W, lo, hi) ==
    LET at == SelectSeq([i \in 1..Len(W) |-> i],
                        LAMBDA i : lo <= i /\ i <= hi /\ IsStruct(W[i]))
    IN  [n \in 1..Len(at) |-> W[at[n]].text[2]]

\* The structs expected for a namespace: its Definitions of the category
\* that are not filtered out, in input order.
ExpectedStructs(ns) ==
    LET ds == SelectSeq(definitions,
                        LAMBDA d : /\ d.category = category /\ d.namespace = ns
                                   /\ (d.category = "Functions" \/ d.ty.name # "Bool"))
    IN  [n \in 1..Len(ds) |-> CamelCase[ds[n].name]]

Emitted(W, d) ==
    \E k \in 1..Len(W) : IsStruct(W[k]) /\ W[k].text[2] = CamelCase[d.name]

\* C15: of the Definitions of the category being written, a Type is emitted
\* exactly when its result type is not ignorable and a Function is emitted
\* always, also when its result type is ignorable.
C15_IgnorableFilter ==
    (mpc = "returned" /\ ret = "Ok") =>
        \A i \in 1..Len(definitions) :
            LET d == definitions[i]
            IN  d.category = category =>
                    /\ d.category = "Types" =>
                          (Emitted(file.written, d) <=> d.ty.name # "Bool")
                    /\ d.category = "Functions" => Emitted(file.written, d)

\* A run over the Functions emitted setTyping, whose result type is Bool.
C15_Witness ==
    /\ Returned /\ ret = "Ok" /\ category = "Functions"
    /\ \E i \in 1..Len(definitions) :
          /\ definitions[i].name = "setTyping"
          /\ definitions[i].ty.name = "Bool"
          /\ Emitted(file.written, definitions[i])

\* Reading the written text: which fragment of which struct a chunk starts
\* ("" when it starts none).
\* An impl header is `impl<G> Trait for Name<G> {`, with as many tokens for
\* the first generic parameter list as for the second.
TraitOf(c) == IF Len(c.text) >= 4 THEN c.text[Len(c.text) \div 2] ELSE ""
FragmentKind(c) ==
    IF IsStruct(c) THEN "struct"
    ELSE IF Len(c.text) = 7 /\ c.text[1] = "impl " /\ c.text[3] = "From<" THEN "conversion"
    ELSE CASE TraitOf(c) = "crate::Identifiable for" -> "identity"
           [] TraitOf(c) = "crate::Serializable for" -> "serializer"
           [] TraitOf(c) = "crate::Deserializable for" -> "deserializer"
           [] TraitOf(c) = "crate::RemoteCall for" -> "rpc"
           [] OTHER -> ""
FragmentOwner(c) ==
    IF IsStruct(c) THEN c.text[2]
    ELSE IF FragmentKind(c) = "conversion" THEN c.text[6]
    ELSE c.text[Len(c.text) \div 2 + 1]

\* The chunks that start a fragment, and the fragments of one struct in the
\* order they were written.
FragmentsAt(W) == SelectSeq([i \in 1..Len(W) |-> i], LAMBDA i : FragmentKind(W[i]) # "")
FragmentsOf(W, name) ==
    LET at == SelectSeq(FragmentsAt(W), LAMBDA i : FragmentOwner(W[i]) = name)
    IN  [n \in 1..Len(at) |-> FragmentKind(W[at[n]])]

\* C16: for every Definition that is written the text holds, in this order
\* and next to each other, one struct, one Identifiable impl, one
\* Serializable impl, at most one Deserializable impl, a RemoteCall impl
\* exactly for a Function, and a From / TryFrom impl exactly for a Type when
\* impl_from_enum is set; a Definition that is not written has no fragment.
C16_FragmentsPerDefinition ==
    (mpc = "returned" /\ ret = "Ok") =>
        LET W == file.written
            at == FragmentsAt(W)
        IN  /\ \A i \in 1..Len(definitions) :
                  LET d == definitions[i]
                      frags == FragmentsOf(W, CamelCase[d.name])
                      rest == IF Len(frags) >= 3 THEN SubSeq(frags, 4, Len(frags)) ELSE <<>>
                      rpc == IF d.category = "Functions" THEN <<"rpc">> ELSE <<>>
                      conv == IF d.category = "Types" /\ conf.impl_from_enum
                              THEN <<"conversion">> ELSE <<>>
                  IN  IF Emitted(W, d)
                      THEN /\ Len(frags) >= 3
                           /\ SubSeq(frags, 1, 3) = <<"struct", "identity", "serializer">>
                           /\ rest \in {rpc \o conv, <<"deserializer">> \o rpc \o conv}
                           /\ d.category = "Functions" => ~\E n \in 1..Len(frags) : frags[n] = "conversion"
                           /\ d.category = "Types" => ~\E n \in 1..Len(frags) : frags[n] = "rpc"
                      ELSE frags = <<>>
            /\ \A n \in 1..Len(at) :
                  FragmentKind(W[at[n]]) # "struct" =>
                      /\ n > 1
                      /\ FragmentOwner(W[at[n]]) = FragmentOwner(W[at[n - 1]])

\* sendMessage was written with the option for Functions off: struct,
\* identity, serializer, deserializer and RPC binding, in this order.
C16_Witness ==
    /\ Returned /\ ret = "Ok" /\ category = "Functions"
    /\ ~conf.deserializable_functions
    /\ FragmentsOf(file.written, "SendMessage")
          = <<"struct", "identity", "serializer", "deserializer", "rpc">>
    /\ FragmentsOf(file.written, "SetTyping")
          = <<"struct", "identity", "serializer", "rpc">>

\* The fragment that starts at chunk h: up to the `}` at the header's
\* indentation.
FragmentFrom(W, h) ==
    SubSeq(W, h, Min({k \in (h + 1)..Len(W) :
                        W[k].text = <<"}">> /\ W[k].indent = W[h].indent}))

\* The fragment of the given kind written for a struct; <<>> if there is none.
FragmentText(W, name, kind) ==
    LET at == {h \in 1..Len(W) :
                 /\ FragmentKind(W[h]) = kind
                 /\ FragmentOwner(W[h]) = name}
    IN  IF at = {} THEN <<>> ELSE FragmentFrom(W, Min(at))

\* The chunks an option adds: the derive and serde attributes, the import
\* for the conversions, and the chunks of the Deserializable and From /
\* TryFrom impls.
IsAttribute(c) ==
    c.text \in {<<"#[derive(Debug)]">>,
                <<"#[derive(serde_derive::Serialize, serde_derive::Deserialize)]">>,
                <<"    #[serde(with = \"serde_bytes\")]">>,
                <<"#[allow(unused_imports)]">>,
                <<"use std::convert::TryFrom;">>}
WithoutOptions(W) ==
    LET heads == {h \in 1..Len(W) : FragmentKind(W[h]) \in {"deserializer", "conversion"}}
        spans == {<<h, h + Len(FragmentFrom(W, h)) - 1>> : h \in heads}
        keep == SelectSeq([k \in 1..Len(W) |-> k],
                          LAMBDA k : /\ ~IsAttribute(W[k])
                                     /\ ~\E sp \in spans : sp[1] <= k /\ k <= sp[2])
    IN  [n \in 1..Len(keep) |-> W[keep[n]]]

\* The configurations that differ from cfg in one option.
Toggles(cfg) ==
    {[cfg EXCEPT !.impl_debug = ~@], [cfg EXCEPT !.impl_serde = ~@],
     [cfg EXCEPT !.deserializable_functions = ~@], [cfg EXCEPT !.impl_from_enum = ~@]}

\* C17: toggling an option leaves the Serializable impl of every written
\* Definition as it is and, where both configurations write one, its
\* Deserializable impl too; the two outputs differ only in attributes and in
\* whole Deserializable and From / TryFrom impls.  (Every configuration is
\* the configuration of some run, so what holds for one toggle holds for any
\* two configurations.)
C17_OptionsAdditive ==
    (mpc = "returned" /\ ret = "Ok") =>
        LET W == file.written
            names == {CamelCase[definitions[i].name] : i \in 1..Len(definitions)}
            ser == [name \in names |-> FragmentText(W, name, "serializer")]
            de == [name \in names |-> FragmentText(W, name, "deserializer")]
            core == WithoutOptions(W)
        IN  \A other \in Toggles(conf) :
                LET V == Output(category, definitions, other)
                IN  /\ \A name \in names :
                          /\ ser[name] = FragmentText(V, name, "serializer")
                          /\ LET deV == FragmentText(V, name, "deserializer")
                             IN  (de[name] # <<>> /\ deV # <<>>) => de[name] = deV
                    /\ core = WithoutOptions(V)

\* updateNew, with a field of type bytes, was written with every option on:
\* attributes on the struct and on the field, and both optional impls.
C17_Witness ==
    /\ Returned /\ ret = "Ok" /\ category = "Types"
    /\ conf.impl_debug /\ conf.impl_serde /\ conf.impl_from_enum
    /\ FragmentText(file.written, "UpdateNew", "serializer") # <<>>
    /\ FragmentText(file.written, "UpdateNew", "conversion") # <<>>
    /\ \E k \in 1..Len(file.written) :
          file.written[k].text = <<"    #[serde(with = \"serde_bytes\")]">>

\* The schema invariant: a flag reference names a Flags parameter of the
\* Definition, and no two parameters share a bit of one Flags parameter.
Dangling(d) ==
    \E i \in 1..Len(d.params) :
        /\ d.params[i].kind = "Normal" /\ d.params[i].flag # None
        /\ ~\E j \in 1..Len(d.params) :
               d.params[j].kind = "Flags" /\ d.params[j].name = d.params[i].flag[1].name
DuplicateBit(d) ==
    \E i, j \in 1..Len(d.params) :
        /\ i # j
        /\ d.params[i].kind = "Normal" /\ d.params[i].flag # None
        /\ d.params[j].kind = "Normal" /\ d.params[j].flag # None
        /\ d.params[i].flag[1] = d.params[j].flag[1]

C19_WriteFailureFatal ==
    mpc = "returned" =>
        LET full == Output(category, definitions, conf)
            hit == {k \in failing : k <= Len(full)}
        IN  IF hit = {}
            THEN ret = "Ok" /\ file.err = 0 /\ file.written = full
                 /\ file.calls = Len(full)
            ELSE /\ ret = "Err"
                 /\ file.err = Min(hit)
                 /\ file.calls = Min(hit)
                 /\ file.written = Take(full, Min(hit) - 1)

\* The write of the `}` that ends an inner mod failed: the run returned Err
\* with the mod left open.
C19_Witness ==
    /\ mpc = "returned" /\ ret = "Err"
    /\ failing = {Len(Output(category, definitions, conf))}
    /\ file.calls = Len(file.written) + 1
    /\ OpenAt(file.written) # {}
    /\ CloseAt(file.written) = {}
    /\ \E k \in 1..Len(file.written) : IsStruct(file.written[k])

\* The written text without the lines write_category_mod writes itself:
\* `pub mod key {`, the two import lines, and the `}` that ends a mod.
IsImport(c) ==
    c.text \in {<<"#[allow(unused_imports)]">>, <<"use std::convert::TryFrom;">>}
DefinitionsText(W) ==
    LET first == IF OpenAt(W) = {} THEN Len(W) + 1 ELSE Min(OpenAt(W))
        keep == SelectSeq([k \in 1..Len(W) |-> k],
                          LAMBDA k : /\ ~IsImport(W[k]) /\ ~IsOpen(W[k])
                                     /\ ~(k > first /\ IsClose(W[k])))
    IN  [n \in 1..Len(keep) |-> W[keep[n]]]

\* What write_definition writes for the Definition of a struct on its own,
\* on a fresh writer.
Alone(name) ==
    LET d == CHOOSE x \in {definitions[i] : i \in 1..Len(definitions)} :
                CamelCase[x.name] = name
    IN  write_definition_to(Writer({}), IF d.namespace = "" THEN "" ELSE "    ",
                            d, metadata, conf).written

\* C20: what a run writes for its Definitions is, one Definition after the
\* other, what write_definition writes for each of them alone, on a fresh
\* writer, from the Definition, the Metadata, the configuration and the
\* indent: no Definition's text depends on what was written before or after
\* it.  The Definition list and the Metadata are never changed.  (Every
\* order of the list is the input of some run, so the text of a Definition
\* is the same in every order.)
C20_EmittersIndependent ==
    /\ [][definitions' = definitions /\ metadata' = metadata]_vars
    /\ [](mpc = "returned" /\ ret = "Ok" =>
            LET order == StructsIn(file.written, 1, Len(file.written))
            IN  DefinitionsText(file.written)
                    = ConcatAll([n \in 1..Len(order) |-> Alone(order[n])]))

\* Two Definitions of one namespace were written one after the other.
C20_Witness ==
    /\ mpc = "returned" /\ ret = "Ok" /\ category = "Functions"
    /\ Len(definitions) >= 2
    /\ definitions[1].name = "setTyping" /\ definitions[2].name = "sendMessage"
    /\ StructsIn(file.written, 1, Len(file.written)) = <<"SetTyping", "SendMessage">>

(***************************************************************************)
(* grammers-client: what a request returns.  An InvocationError is either  *)
(* an RpcError sent by the server or a transport error; an RpcError's name *)
(* is kept as the sequence of its words and underscores, so that           *)
(* `InvocationError::is` can match a prefix or a suffix of it.             *)
(***************************************************************************)
\* How many operations a behaviour calls on one client, iterator or builder.
MaxOps == 2

Ok(variant, data) ==
    [kind |-> "Ok", code |-> 0, name |-> <<variant>>, value |-> None, data |-> data]
Rpc(code, name, value) ==
    [kind |-> "Rpc", code |-> code, name |-> name, value |-> value, data |-> <<>>]
\* InvocationError::Dropped, Read, ...: anything that is no RpcError.
Transport ==
    [kind |-> "Io", code |-> 0, name |-> <<"Dropped">>, value |-> None, data |-> <<>>]
\* The AuthorizationError connect_sender returns.
ConnectFailed ==
    [kind |-> "Gen", code |-> 0, name |-> <<"Gen">>, value |-> None, data |-> <<>>]
NoError ==
    [kind |-> "", code |-> 0, name |-> <<>>, value |-> None, data |-> <<>>]

\* The datacenter the client starts at and the one a migration names.
HomeDc == 2
OtherDc == 4

\* The errors a request may fail with: a transport error and a flood wait
\* whatever the request, and the errors the callers of the request look for.
FloodWait == Rpc(420, <<"FLOOD", "_", "WAIT">>, Some(30))
ErrorsOf(req) ==
    {Transport} \cup
    CASE req \in {"auth.importBotAuthorization", "auth.sendCode"} ->
            { FloodWait,
              Rpc(303, <<"PHONE", "_", "MIGRATE">>, Some(OtherDc)),
              Rpc(303, <<"NETWORK", "_", "MIGRATE">>, None) }
      [] req = "auth.signIn" ->
            { FloodWait,
              Rpc(401, <<"SESSION", "_", "PASSWORD", "_", "NEEDED">>, None),
              Rpc(400, <<"PHONE", "_", "CODE", "_", "INVALID">>, None),
              Rpc(400, <<"PHONE", "_", "CODE">>, None) }
      [] req = "auth.checkPassword" ->
            { FloodWait,
              Rpc(400, <<"PASSWORD", "_", "HASH", "_", "INVALID">>, None) }
      [] req = "updates.getState" -> {}
      [] OTHER -> {FloodWait}

\* The user ids and the bot flag of tl::types::User, as <<id, bot>>.
Users == {<<7, 0>>, <<8, 1>>}

\* account.Password, as <<current_algo>>: 0 for no algorithm, 1 for one
\* whose p and g fail check_p_and_g, 2 for one whose p and g pass.
Passwords == {<<0>>, <<1>>, <<2>>}

\* What the server may answer to a request.
Responses(req) ==
    ErrorsOf(req) \cup
    CASE req = "auth.logOut" -> {Ok("LoggedOut", <<>>)}
      [] req = "updates.getState" -> {Ok("State", <<55>>)}
      [] req \in {"auth.importBotAuthorization", "auth.signIn", "auth.checkPassword"} ->
            {Ok("Authorization", u) : u \in Users} \cup {Ok("SignUpRequired", <<>>)}
      [] req = "auth.sendCode" ->
            {Ok("Code", <<99>>), Ok("Success", <<>>), Ok("PaymentRequired", <<>>)}
      [] req = "account.getPassword" -> {Ok("Password", p) : p \in Passwords}
      [] OTHER -> {}

StartsWith(s, p) == Len(p) <= Len(s) /\ SubSeq(s, 1, Len(p)) = p
EndsWith(s, p) == Len(p) <= Len(s) /\ SubSeq(s, Len(s) - Len(p) + 1, Len(s)) = p

\* RpcError::is: a trailing `*` matches any name with that prefix, a
\* leading `*` any name with that suffix, anything else the whole name.
RpcError_is(e, pattern) ==
    IF pattern # <<>> /\ pattern[Len(pattern)] = "*"
    THEN StartsWith(e.name, SubSeq(pattern, 1, Len(pattern) - 1))
    ELSE IF pattern # <<>> /\ pattern[1] = "*"
         THEN EndsWith(e.name, Tail(pattern))
         ELSE e.name = pattern

\* InvocationError::is: only an RpcError matches.
InvocationError_is(e, pattern) == e.kind = "Rpc" /\ RpcError_is(e, pattern)

(***************************************************************************)
(* The Client (client/auth.rs).  Every method is an operator from the      *)
(* client, the network log and the server's answers to what the method     *)
(* leaves behind and returns.                                              *)
(***************************************************************************)
\* Client::connect at the home datacenter, nobody signed in.
NewClient ==
    [connected |-> TRUE, dc_id |-> HomeDc, sender |-> HomeDc, request_tx |-> HomeDc,
     session_user |-> None, self_user |-> None, message_box |-> None,
     session_state |-> None, chat_hashes |-> {}, channel_state |-> {}]

Invoked(c, req, r) ==
    [ev |-> "invoke", req |-> req, dc |-> c.request_tx, ok |-> r.kind = "Ok", answer |-> r]
Connected(dc, ok) ==
    [ev |-> "connect", req |-> "", dc |-> dc, ok |-> ok,
     answer |-> IF ok THEN NoError ELSE ConnectFailed]

\* What a method leaves behind and returns: result is "Ok", "Err" or
\* "panic"; variant is the variant of the error type returned.
Return(c, w, result, variant, error, value) ==
    [client |-> c, wire |-> w, result |-> result, variant |-> variant,
     error |-> error, value |-> value]

\* self.invoke(&request).await, answered with r: the request goes out
\* through the current request channel.
invoke(c, w, req, r) == Append(w, Invoked(c, req, r))

\* complete_login: the session user and the self user are set; the update
\* state is set and synchronized to the session if GetState succeeded.
complete_login(c, w, user, gs) ==
    LET w1 == invoke(c, w, "updates.getState", gs)
        update_state == IF gs.kind = "Ok" THEN Some(gs.data) ELSE None
        c1 == [c EXCEPT !.session_user = Some(<<user[1], c.dc_id, user[2]>>),
                        !.self_user = Some(user[1]),
                        !.message_box = IF update_state # None THEN update_state ELSE @,
                        !.session_state = IF update_state # None THEN update_state ELSE @]
    IN  Return(c1, w1, "Ok", "", NoError, user)

\* Client::sign_out
sign_out(c, w, r) ==
    LET w1 == invoke(c, w, "auth.logOut", r)
    IN  IF r.kind = "Ok" THEN Return(c, w1, "Ok", "", NoError, <<>>)
        ELSE Return(c, w1, "Err", "", r, <<>>)

\* Client::sign_out_disconnect: the answer to LogOut is dropped and the
\* method panics.
sign_out_disconnect(c, w, r) ==
    Return(c, invoke(c, w, "auth.logOut", r), "panic", "", NoError, <<>>)

\* The tail of bot_sign_in: `match result { Authorization(x) => .., SignUpRequired(_) => panic!() }`.
BotAuthorized(c, w, r, gs) ==
    IF r.name = <<"Authorization">>
    THEN complete_login(c, w, r.data, gs)
    ELSE Return(c, w, "panic", "", NoError, <<>>)

\* Mutant: the datacenter is switched without recording it in the state.
bot_sign_in_keeps_dc_id(c, w, r1, conn, r2, gs) ==
    LET req == "auth.importBotAuthorization"
        w1 == invoke(c, w, req, r1)
    IN  IF r1.kind = "Ok" THEN BotAuthorized(c, w1, r1, gs)
        ELSE IF r1.kind = "Rpc" /\ r1.code = 303
        THEN IF r1.value = None THEN Return(c, w1, "panic", "", NoError, <<>>)
             ELSE LET dc_id == r1.value[1]
                      w2 == Append(w1, Connected(dc_id, conn))
                      c2 == [c EXCEPT !.sender = dc_id, !.request_tx = dc_id]
                      w3 == invoke(c2, w2, req, r2)
                  IN  IF ~conn THEN Return(c, w2, "Err", "Gen", ConnectFailed, <<>>)
                      ELSE IF r2.kind # "Ok" THEN Return(c2, w3, "Err", "Invoke", r2, <<>>)
                      ELSE BotAuthorized(c2, w3, r2, gs)
        ELSE Return(c, w1, "Err", "Invoke", r1, <<>>)

\* Client::bot_sign_in, with the answers r1 to the first invoke, conn of
\* connect_sender, r2 to the second invoke and gs to GetState.
bot_sign_in(c, w, r1, conn, r2, gs) ==
    LET req == "auth.importBotAuthorization"
        w1 == invoke(c, w, req, r1)
    IN  IF r1.kind = "Ok" THEN BotAuthorized(c, w1, r1, gs)
        ELSE IF r1.kind = "Rpc" /\ r1.code = 303
        THEN IF r1.value = None THEN Return(c, w1, "panic", "", NoError, <<>>)
             ELSE LET dc_id == r1.value[1]
                      w2 == Append(w1, Connected(dc_id, conn))
                      c2 == [c EXCEPT !.sender = dc_id, !.request_tx = dc_id,
                                      !.dc_id = dc_id]
                      w3 == invoke(c2, w2, req, r2)
                  IN  IF ~conn THEN Return(c, w2, "Err", "Gen", ConnectFailed, <<>>)
                      ELSE IF r2.kind # "Ok" THEN Return(c2, w3, "Err", "Invoke", r2, <<>>)
                      ELSE BotAuthorized(c2, w3, r2, gs)
        ELSE Return(c, w1, "Err", "Invoke", r1, <<>>)

\* `match x { SC::Code(code) => code, SC::Success(_) => panic!(), SC::PaymentRequired(_) => todo!() }`
\* followed by `Ok(LoginToken { .. })`.
CodeSent(c, w, r) ==
    IF r.name = <<"Code">>
    THEN Return(c, w, "Ok", "", NoError, r.data)
    ELSE Return(c, w, "panic", "", NoError, <<>>)

\* Client::request_login_code
request_login_code(c, w, r1, conn, r2) ==
    LET req == "auth.sendCode"
        w1 == invoke(c, w, req, r1)
    IN  IF r1.kind = "Ok" THEN CodeSent(c, w1, r1)
        ELSE IF r1.kind = "Rpc" /\ r1.code = 303
        THEN IF r1.value = None THEN Return(c, w1, "panic", "", NoError, <<>>)
             ELSE LET dc_id == r1.value[1]
                      w2 == Append(w1, Connected(dc_id, conn))
                      c2 == [c EXCEPT !.sender = dc_id, !.request_tx = dc_id,
                                      !.dc_id = dc_id]
                      w3 == invoke(c2, w2, req, r2)
                  IN  IF ~conn THEN Return(c, w2, "Err", "Gen", ConnectFailed, <<>>)
                      ELSE IF r2.kind # "Ok" THEN Return(c2, w3, "Err", "Invoke", r2, <<>>)
                      ELSE CodeSent(c2, w3, r2)
        ELSE Return(c, w1, "Err", "Invoke", r1, <<>>)

\* Client::get_password_information
get_password_information(c, w, rp) ==
    LET w1 == invoke(c, w, "account.getPassword", rp)
    IN  IF rp.kind = "Ok" THEN Return(c, w1, "Ok", "", NoError, rp.data)
        ELSE Return(c, w1, "Err", "", rp, <<>>)

\* Mutant: the PHONE_CODE_* arm is missing.
sign_in_without_invalid_code(c, w, r, rp, gs) ==
    LET w1 == invoke(c, w, "auth.signIn", r)
    IN  IF r.kind = "Ok" /\ r.name = <<"Authorization">>
        THEN complete_login(c, w1, r.data, gs)
        ELSE IF r.kind = "Ok"
        THEN Return(c, w1, "Err", "SignUpRequired", NoError, <<>>)
        ELSE IF InvocationError_is(r, <<"SESSION", "_", "PASSWORD", "_", "NEEDED">>)
        THEN LET pw == get_password_information(c, w1, rp)
             IN  IF pw.result = "Ok"
                 THEN Return(c, pw.wire, "Err", "PasswordRequired", NoError, pw.value)
                 ELSE Return(c, pw.wire, "Err", "Other", pw.error, <<>>)
        ELSE Return(c, w1, "Err", "Other", r, <<>>)

\* Client::sign_in, with the answers r to SignIn, rp to GetPassword and gs
\* to GetState.
sign_in(c, w, r, rp, gs) ==
    LET w1 == invoke(c, w, "auth.signIn", r)
    IN  IF r.kind = "Ok" /\ r.name = <<"Authorization">>
        THEN complete_login(c, w1, r.data, gs)
        ELSE IF r.kind = "Ok"
        THEN Return(c, w1, "Err", "SignUpRequired", NoError, <<>>)
        ELSE IF InvocationError_is(r, <<"SESSION", "_", "PASSWORD", "_", "NEEDED">>)
        THEN LET pw == get_password_information(c, w1, rp)
             IN  IF pw.result = "Ok"
                 THEN Return(c, pw.wire, "Err", "PasswordRequired", NoError, pw.value)
                 ELSE Return(c, pw.wire, "Err", "Other", pw.error, <<>>)
        ELSE IF InvocationError_is(r, <<"PHONE", "_", "CODE", "_", "*">>)
        THEN Return(c, w1, "Err", "InvalidCode", NoError, <<>>)
        ELSE Return(c, w1, "Err", "Other", r, <<>>)

\* check_p_and_g on the parameters of the password's algorithm.
check_p_and_g(password) == password[1] = 2

\* The tail of check_password: the CheckPassword request and its answer.
PasswordChecked(c, w, r, gs) ==
    LET w1 == invoke(c, w, "auth.checkPassword", r)
    IN  IF r.kind = "Ok" /\ r.name = <<"Authorization">>
        THEN complete_login(c, w1, r.data, gs)
        ELSE IF r.kind = "Ok"
        THEN Return(c, w1, "panic", "", NoError, <<>>)
        ELSE IF InvocationError_is(r, <<"PASSWORD", "_", "HASH", "_", "INVALID">>)
        THEN Return(c, w1, "Err", "InvalidPassword", NoError, <<>>)
        ELSE Return(c, w1, "Err", "Other", r, <<>>)

\* Client::check_password on the token `password`, with the answers rp to
\* GetPassword, r to CheckPassword and gs to GetState.
check_password(c, w, password, rp, r, gs) ==
    IF password[1] = 0 THEN Return(c, w, "panic", "", NoError, <<>>)
    ELSE IF check_p_and_g(password) THEN PasswordChecked(c, w, r, gs)
    ELSE LET pw == get_password_information(c, w, rp)
         IN  IF pw.result # "Ok" THEN Return(c, pw.wire, "Err", "Other", pw.error, <<>>)
             ELSE IF pw.value[1] = 0 \/ ~check_p_and_g(pw.value)
             THEN Return(c, pw.wire, "panic", "", NoError, <<>>)
             ELSE PasswordChecked(c, pw.wire, r, gs)

(***************************************************************************)
(* The state machine of one client: any of its authentication methods is   *)
(* called, MaxOps times at most, and the server answers as it likes.       *)
(***************************************************************************)
NoCall ==
    [op |-> "", n |-> 0, result |-> "", variant |-> "", error |-> NoError,
     value |-> <<>>, answer |-> NoError, before |-> NewClient, from |-> 0]

\* The method `op`, answered first with `answer`, returned `out`.
Called(op, answer, out) ==
    /\ outcome.n < MaxOps
    /\ outcome.result # "panic"
    /\ client' = out.client
    /\ wire' = out.wire
    /\ outcome' = [op |-> op, n |-> outcome.n + 1, result |-> out.result,
                   variant |-> out.variant, error |-> out.error, value |-> out.value,
                   answer |-> answer, before |-> client, from |-> Len(wire)]
    /\ UNCHANGED <<iter, builder, app>>
    /\ UNCHANGED <<genVars, modVars>>

InitAuth ==
    /\ GenIdle
    /\ ModIdle
    /\ client = NewClient
    /\ wire = <<>>
    /\ outcome = NoCall
    /\ iter = <<>>
    /\ builder = <<>>
    /\ app = <<>>

\* The answers to a request the method may or may not make: any answer of
\* the server if it is made, no answer if it is not.
AnswersIf(made, req) == IF made THEN Responses(req) ELSE {NoError}

\* An error that sends bot_sign_in and request_login_code to another
\* datacenter.
Migrates(r) == r.kind = "Rpc" /\ r.code = 303 /\ r.value # None
IsAuthorization(r) == r.kind = "Ok" /\ r.name = <<"Authorization">>

BotSignIn ==
    \E r1 \in Responses("auth.importBotAuthorization") :
    \E conn \in (IF Migrates(r1) THEN BOOLEAN ELSE {FALSE}) :
    \E r2 \in AnswersIf(conn, "auth.importBotAuthorization") :
    \E gs \in AnswersIf(IsAuthorization(r1) \/ IsAuthorization(r2), "updates.getState") :
        Called("bot_sign_in", r1, bot_sign_in(client, wire, r1, conn, r2, gs))

RequestLoginCode ==
    \E r1 \in Responses("auth.sendCode") :
    \E conn \in (IF Migrates(r1) THEN BOOLEAN ELSE {FALSE}) :
    \E r2 \in AnswersIf(conn, "auth.sendCode") :
        Called("request_login_code", r1, request_login_code(client, wire, r1, conn, r2))

SignIn ==
    \E r \in Responses("auth.signIn") :
    \E rp \in AnswersIf(r.name = <<"SESSION", "_", "PASSWORD", "_", "NEEDED">>,
                        "account.getPassword") :
    \E gs \in AnswersIf(IsAuthorization(r), "updates.getState") :
        Called("sign_in", r, sign_in(client, wire, r, rp, gs))

CheckPassword ==
    \E password \in Passwords :
    \E rp \in AnswersIf(password[1] = 1, "account.getPassword") :
    \E r \in AnswersIf(password[1] = 2 \/ (rp.kind = "Ok" /\ rp.data[1] = 2),
                       "auth.checkPassword") :
    \E gs \in AnswersIf(IsAuthorization(r), "updates.getState") :
        Called("check_password", r, check_password(client, wire, password, rp, r, gs))

SignOut ==
    \E r \in Responses("auth.logOut") :
        Called("sign_out", r, sign_out(client, wire, r))

SignOutDisconnect ==
    \E r \in Responses("auth.logOut") :
        Called("sign_out_disconnect", r, sign_out_disconnect(client, wire, r))

NextAuth ==
    BotSignIn \/ RequestLoginCode \/ SignIn \/ CheckPassword \/ SignOut
    \/ SignOutDisconnect

SpecAuth == InitAuth /\ [][NextAuth]_vars

(***************************************************************************)
(* Properties of the Client's authentication methods.                      *)
(***************************************************************************)
\* C21: sign_out_disconnect invokes the log-out request, then disconnects the
\* client and returns, whether the log-out request succeeded or failed.
C21_SignOutDisconnects ==
    outcome.op = "sign_out_disconnect" =>
        /\ Len(wire) = outcome.from + 1
        /\ wire[Len(wire)].req = "auth.logOut"
        /\ outcome.result \in {"Ok", "Err"}
        /\ ~client.connected

\* What the last operation did on the network.
Events == SubSeq(wire, outcome.from + 1, Len(wire))
Invokes(evs, req) == SelectSeq(evs, LAMBDA e : e.ev = "invoke" /\ e.req = req)
Connects(evs) == SelectSeq(evs, LAMBDA e : e.ev = "connect")
RequestOf(op) ==
    IF op = "bot_sign_in" THEN "auth.importBotAuthorization" ELSE "auth.sendCode"
Migrating == {"bot_sign_in", "request_login_code"}

\* After a first error other than a 303: no reconnect, one invoke, the
\* datacenter as before.
NoMigration(evs) ==
    /\ Connects(evs) = <<>>
    /\ Len(Invokes(evs, RequestOf(outcome.op))) = 1
    /\ client.dc_id = outcome.before.dc_id
    /\ client.sender = outcome.before.sender
    /\ client.request_tx = outcome.before.request_tx

\* After a 303 naming the datacenter dc and a successful connect: sender,
\* request channel and dc_id are those of dc, and the request went out
\* once more, through the new channel; an error answering it is returned.
Migrated(evs, dc) ==
    /\ Len(evs) >= 3
    /\ evs[2] = Connected(dc, TRUE)
    /\ Len(Connects(evs)) = 1
    /\ client.sender = dc /\ client.request_tx = dc /\ client.dc_id = dc
    /\ Len(Invokes(evs, RequestOf(outcome.op))) = 2
    /\ evs[3].ev = "invoke" /\ evs[3].req = RequestOf(outcome.op) /\ evs[3].dc = dc
    /\ evs[3].answer.kind # "Ok" =>
          /\ outcome.result = "Err"
          /\ outcome.error = evs[3].answer
          /\ Len(evs) = 3

\* C27 as stated: in bot_sign_in and request_login_code a first error 303
\* always ends with the client moved to the datacenter the error names and
\* the request invoked exactly once more; any other first error leaves the
\* connection and dc_id alone.
C27_MigratesOn303 ==
    (outcome.op \in Migrating /\ outcome.answer.kind # "Ok") =>
        IF Migrates(outcome.answer)
        THEN Migrated(Events, outcome.answer.value[1])
        ELSE NoMigration(Events)

\* C27, amended: the client is moved and the request invoked once more only
\* if connecting to the named datacenter succeeds; if it fails, that error
\* is returned, nothing of the client changes and nothing more is invoked.
C27_MigratesOnceIfConnected ==
    (outcome.op \in Migrating /\ outcome.answer.kind # "Ok") =>
        IF Migrates(outcome.answer)
        THEN /\ Len(Events) >= 2
             /\ Events[1] = Invoked(outcome.before, RequestOf(outcome.op), outcome.answer)
             /\ Events[2].ev = "connect" /\ Events[2].dc = outcome.answer.value[1]
             /\ IF Events[2].ok
                THEN Migrated(Events, outcome.answer.value[1])
                ELSE /\ outcome.result = "Err"
                     /\ outcome.error = ConnectFailed
                     /\ client = outcome.before
                     /\ Len(Events) = 2
        ELSE NoMigration(Events)

\* A second 303 after a successful move is returned, not followed.
C27_Witness ==
    /\ outcome.op \in Migrating
    /\ Migrates(outcome.answer)
    /\ Len(Events) = 3
    /\ Migrates(Events[3].answer)
    /\ outcome.result = "Err"
    /\ client.dc_id = OtherDc

\* What complete_login sets: the session user, the self user and the update
\* state (in the message box and in the session).
LoginState(c) == <<c.session_user, c.self_user, c.message_box, c.session_state>>
LoginOps == {"sign_in", "check_password", "bot_sign_in"}
IsRpcNamed(r, name) == r.kind = "Rpc" /\ r.name = name
IsPhoneCodeError(r) ==
    /\ r.kind = "Rpc"
    /\ Len(r.name) >= 4
    /\ <<r.name[1], r.name[2], r.name[3], r.name[4]>> = <<"PHONE", "_", "CODE", "_">>

\* C28: sign_in maps each answer of the server to one result: Authorization
\* to Ok(user) after complete_login, SignUpRequired to Err(SignUpRequired),
\* SESSION_PASSWORD_NEEDED to Err(PasswordRequired(token)) or, if the
\* password information cannot be fetched, Err(Other), PHONE_CODE_* to
\* Err(InvalidCode), any other error to Err(Other); and the session user
\* and the update state change only in the Authorization case of sign_in,
\* check_password and bot_sign_in, never in an error outcome.
C28_SignInOutcomes ==
    /\ outcome.op = "sign_in" =>
          LET r == outcome.answer
              evs == Events
          IN  IF IsAuthorization(r)
              THEN /\ outcome.result = "Ok"
                   /\ outcome.value = r.data
                   /\ client.session_user = Some(<<r.data[1], outcome.before.dc_id, r.data[2]>>)
                   /\ client.self_user = Some(r.data[1])
              ELSE IF r.kind = "Ok"
              THEN outcome.result = "Err" /\ outcome.variant = "SignUpRequired"
              ELSE IF IsRpcNamed(r, <<"SESSION", "_", "PASSWORD", "_", "NEEDED">>)
              THEN /\ Len(evs) = 2
                   /\ evs[2].req = "account.getPassword"
                   /\ outcome.result = "Err"
                   /\ IF evs[2].answer.kind = "Ok"
                      THEN /\ outcome.variant = "PasswordRequired"
                           /\ outcome.value = evs[2].answer.data
                      ELSE /\ outcome.variant = "Other"
                           /\ outcome.error = evs[2].answer
              ELSE IF IsPhoneCodeError(r)
              THEN outcome.result = "Err" /\ outcome.variant = "InvalidCode"
              ELSE /\ outcome.result = "Err" /\ outcome.variant = "Other"
                   /\ outcome.error = r
    /\ outcome.op # "" =>
          /\ outcome.result # "Ok" => LoginState(client) = LoginState(outcome.before)
          /\ LoginState(client) # LoginState(outcome.before) =>
                /\ outcome.op \in LoginOps
                /\ \E i \in 1..Len(Events) : IsAuthorization(Events[i].answer)

\* A signed-in client whose next sign_in needs the password: the token is
\* returned and the earlier login is left as it was.
C28_Witness ==
    /\ outcome.op = "sign_in"
    /\ outcome.variant = "PasswordRequired"
    /\ outcome.before.session_user # None
    /\ LoginState(client) = LoginState(outcome.before)

(***************************************************************************)
(* grammers-client: the dialog iterator (client/dialogs.rs), an            *)
(* IterBuffer<GetDialogs, Dialog>.                                         *)
(***************************************************************************)
\* How many dialogs one answer of the server carries at most.
MaxDialogs == 2

MAX_LIMIT == 100

\* tl::enums::Dialog with the chat it belongs to: the peer, whether the
\* peer is a channel, its pts and its last message as <<id, date>>.
Dialog(peer, channel, pts, last_message) ==
    [peer |-> peer, channel |-> channel, pts |-> pts, last_message |-> last_message]

DialogsKnown ==
    { Dialog(11, FALSE, None, Some(<<101, 1000>>)),
      Dialog(12, TRUE, Some(5), None) }

RECURSIVE DialogLists(_)
DialogLists(n) ==
    IF n = 0 THEN {<<>>}
    ELSE LET shorter == DialogLists(n - 1)
         IN  shorter \cup {Append(l, d) : l \in {s \in shorter : Len(s) = n - 1},
                                          d \in DialogsKnown}

\* What the server may answer to messages.getDialogs: all dialogs at once,
\* a slice of them with the total count, or "not modified".
DialogsAnswers ==
    {Transport, FloodWait}
    \cup {Ok("Dialogs", <<l, Len(l)>>) : l \in DialogLists(MaxDialogs)}
    \cup {Ok("Slice", <<l, n>>) : l \in DialogLists(MaxDialogs), n \in {MaxDialogs, 9}}
    \cup {Ok("NotModified", <<<<>>, 9>>)}

\* IterBuffer::from_request as DialogIter::new calls it, then IterBuffer::limit.
DialogIter_new(limit) ==
    [limit |-> limit, fetched |-> 0, buffer |-> <<>>, last_chunk |-> FALSE,
     total |-> None,
     request |-> [exclude_pinned |-> FALSE, offset_date |-> 0, offset_id |-> 0,
                  offset_peer |-> 0, limit |-> 0]]

\* What a method of the iterator leaves behind and returns.
IterReturn(it, c, w, result, error, value) ==
    [iter |-> it, client |-> c, wire |-> w, result |-> result, error |-> error,
     value |-> value]

limit_reached(it) == it.limit # None /\ it.fetched >= it.limit[1]

\* IterBuffer::pop_item: <<the item, or nothing; the iterator afterwards>>.
pop_item(it) ==
    IF it.buffer = <<>> THEN <<None, it>>
    ELSE <<Some(Head(it.buffer)),
           [it EXCEPT !.buffer = Tail(@), !.fetched = @ + 1]>>

\* IterBuffer::next_raw: <<whether it knows the result, the item, the
\* iterator afterwards>>.
next_raw(it) ==
    IF limit_reached(it) THEN <<TRUE, None, it>>
    ELSE IF it.buffer # <<>> THEN <<TRUE, pop_item(it)[1], pop_item(it)[2]>>
    ELSE IF it.last_chunk THEN <<TRUE, None, it>>
    ELSE <<FALSE, None, it>>

\* IterBuffer::determine_limit
determine_limit(it, max) ==
    IF it.limit # None
    THEN IF it.fetched < it.limit[1]
         THEN (IF it.limit[1] - it.fetched < max THEN it.limit[1] - it.fetched ELSE max)
         ELSE 1
    ELSE max

\* DialogIter::total, answered with r if it invokes the request.
DialogIter_total(it, c, w, r) ==
    IF it.total # None THEN IterReturn(it, c, w, "Ok", NoError, it.total)
    ELSE LET it1 == [it EXCEPT !.request.limit = 1]
             w1 == invoke(c, w, "messages.getDialogs", r)
             total == IF r.name = <<"Dialogs">> THEN Len(r.data[1]) ELSE r.data[2]
         IN  IF r.kind # "Ok" THEN IterReturn(it1, c, w1, "Err", r, <<>>)
             ELSE IterReturn([it1 EXCEPT !.total = Some(total)], c, w1, "Ok", NoError,
                             Some(total))

\* The last message of the last buffered dialog that has one:
\* `buffer.iter().rev().find_map(|dialog| dialog.last_message.as_ref())`.
LastMessage(buffer) ==
    LET with == {i \in 1..Len(buffer) : buffer[i].last_message # None}
    IN  IF with = {} THEN None
        ELSE buffer[CHOOSE i \in with : \A j \in with : j <= i].last_message

\* The offsets of the next request, set from the buffer.
UpdateOffsets(it) ==
    LET last_message == LastMessage(it.buffer)
    IN  [it EXCEPT !.request.exclude_pinned = TRUE,
                   !.request.offset_date =
                        IF last_message # None THEN last_message[1][2] ELSE @,
                   !.request.offset_id =
                        IF last_message # None THEN last_message[1][1] ELSE @,
                   !.request.offset_peer = it.buffer[Len(it.buffer)].peer]

\* Mutant: the offsets are updated after every fetch that left something in
\* the buffer, the last chunk included.
OffsetsUpdatedAlways(it) ==
    IF it.buffer # <<>> THEN UpdateOffsets(it) ELSE it

\* `if !self.last_chunk && !self.buffer.is_empty() { .. }`
OffsetsUpdated(it) ==
    IF ~it.last_chunk /\ it.buffer # <<>> THEN UpdateOffsets(it) ELSE it

\* What a fetched chunk leaves in the client's state: the peers seen, and
\* the pts of the channels among them.
ChunkSeen(c, dialogs) ==
    [c EXCEPT !.chat_hashes = @ \cup {dialogs[i].peer : i \in 1..Len(dialogs)},
              !.channel_state = @ \cup
                    {<<dialogs[i].peer, dialogs[i].pts[1]>> :
                        i \in {j \in 1..Len(dialogs) :
                                  dialogs[j].channel /\ dialogs[j].pts # None}}]

\* DialogIter::next, answered with r if it fetches.
DialogIter_next(it, c, w, r) ==
    LET raw == next_raw(it)
        limit == determine_limit(it, MAX_LIMIT)
        it1 == [it EXCEPT !.request.limit = limit]
        w1 == invoke(c, w, "messages.getDialogs", r)
        dialogs == r.data[1]
        it2 == IF r.name = <<"Dialogs">>
               THEN [it1 EXCEPT !.last_chunk = TRUE, !.total = Some(Len(dialogs))]
               ELSE [it1 EXCEPT !.last_chunk = Len(dialogs) < it1.request.limit,
                                !.total = Some(r.data[2])]
        it3 == OffsetsUpdated([it2 EXCEPT !.buffer = @ \o dialogs])
    IN  IF raw[1] THEN IterReturn(raw[3], c, w, "Ok", NoError, raw[2])
        ELSE IF r.kind # "Ok" THEN IterReturn(it1, c, w1, "Err", r, <<>>)
        ELSE IF r.name = <<"NotModified">> THEN IterReturn(it1, c, w1, "panic", NoError, <<>>)
        ELSE IterReturn(pop_item(it3)[2], ChunkSeen(c, dialogs), w1, "Ok", NoError,
                        pop_item(it3)[1])

(***************************************************************************)
(* The state machine of one dialog iterator: total and next are called in  *)
(* any order, MaxOps times at most.                                        *)
(***************************************************************************)
\* The limits the caller may have put on the iterator.
Limits == {None, Some(0), Some(1), Some(2)}

NoIterCall ==
    [op |-> "", n |-> 0, result |-> "", variant |-> "", error |-> NoError,
     value |-> <<>>, answer |-> NoError, before |-> DialogIter_new(None), from |-> 0,
     nexts |-> 0]

InitDialogs ==
    /\ GenIdle
    /\ ModIdle
    /\ client = NewClient
    /\ wire = <<>>
    /\ outcome = NoIterCall
    /\ iter \in {DialogIter_new(l) : l \in Limits}
    /\ builder = <<>>
    /\ app = <<>>

\* The method `op` of the iterator returned `out`; nexts counts the calls
\* of next so far.
IterCalled(op, answer, out) ==
    /\ outcome.n < MaxOps
    /\ outcome.result # "panic"
    /\ iter' = out.iter
    /\ client' = out.client
    /\ wire' = out.wire
    /\ outcome' = [op |-> op, n |-> outcome.n + 1, result |-> out.result,
                   variant |-> "", error |-> out.error, value |-> out.value,
                   answer |-> answer, before |-> iter, from |-> Len(wire),
                   nexts |-> outcome.nexts + (IF op = "next" THEN 1 ELSE 0)]
    /\ UNCHANGED <<builder, app>>
    /\ UNCHANGED <<genVars, modVars>>

Total ==
    \E r \in (IF iter.total = None THEN DialogsAnswers ELSE {NoError}) :
        IterCalled("total", r, DialogIter_total(iter, client, wire, r))

NextDialog ==
    \E r \in (IF next_raw(iter)[1] THEN {NoError} ELSE DialogsAnswers) :
        IterCalled("next", r, DialogIter_next(iter, client, wire, r))

NextDialogs == Total \/ NextDialog

SpecDialogs == InitDialogs /\ [][NextDialogs]_vars

(***************************************************************************)
(* Properties of the dialog iterator.                                      *)
(***************************************************************************)
\* C22: total performs a network call only if next has not been called
\* before: after any call of next, and after an earlier successful total,
\* it returns the known count without a request; a failed request in total
\* leaves the count unknown.
C22_TotalWithoutRequest ==
    outcome.op = "total" =>
        /\ (outcome.nexts > 0 \/ outcome.before.total # None) =>
              /\ Len(wire) = outcome.from
              /\ outcome.result = "Ok"
        /\ (Len(wire) > outcome.from /\ outcome.result = "Err") => iter.total = None

\* The offsets of the request.
Offsets(it) ==
    <<it.request.exclude_pinned, it.request.offset_date, it.request.offset_id,
      it.request.offset_peer>>

\* The last call was a next that fetched a chunk.
Fetched ==
    /\ outcome.op = "next"
    /\ Len(wire) > outcome.from
    /\ outcome.result = "Ok"

\* C29: after each fetch in next, a Dialogs answer sets last_chunk and makes
\* total the number of dialogs returned; a Slice answer sets last_chunk iff
\* fewer dialogs came than the limit requested and makes total the reported
\* count; the offsets change only if the chunk is not the last and the
\* buffer is not empty, and then offset_peer is the peer of the last
\* buffered dialog and exclude_pinned is true.
C29_FetchEffects ==
    Fetched =>
        LET r == outcome.answer
            dialogs == r.data[1]
            buffered == outcome.before.buffer \o dialogs
        IN  /\ r.name = <<"Dialogs">> =>
                  iter.last_chunk /\ iter.total = Some(Len(dialogs))
            /\ r.name = <<"Slice">> =>
                  /\ iter.last_chunk <=> (Len(dialogs) < iter.request.limit)
                  /\ iter.total = Some(r.data[2])
            /\ IF ~iter.last_chunk /\ buffered # <<>>
               THEN /\ iter.request.offset_peer = buffered[Len(buffered)].peer
                    /\ iter.request.exclude_pinned
               ELSE Offsets(iter) = Offsets(outcome.before)

\* A slice as long as the limit asked for: not the last chunk, and the
\* offsets point behind its last dialog.
C29_Witness ==
    /\ Fetched
    /\ outcome.answer.name = <<"Slice">>
    /\ ~iter.last_chunk
    /\ Offsets(iter) = <<TRUE, 1000, 101, 12>>
    /\ Offsets(outcome.before) = <<FALSE, 0, 0, 0>>

(***************************************************************************)
(* grammers-client: the builders of administrator and banned rights        *)
(* (types/chats.rs).  A builder is a future: its first poll hands the      *)
(* inner value to fut_gen (the `invoke` of the inner type) and stores the  *)
(* future that returns; every poll then polls the stored future.           *)
(***************************************************************************)
\* How often a builder is polled at most.
MaxPolls == 3

\* The kinds of chat a PackedChat may pack.
ChatKinds == {"User", "Chat", "Megagroup", "Broadcast"}

\* PackedChat::try_to_input_channel and PackedChat::try_to_chat_id are Some.
try_to_input_channel(chat) == chat \in {"Megagroup", "Broadcast"}
try_to_chat_id(chat) == chat = "Chat"

\* AdminRightsBuilder::new / BannedRightsBuilder::new: every right false,
\* no future yet.  The rights kept are two of each kind: one that decides
\* the request of a small group chat and one that does not.
AdminRightsBuilderInner_new(chat) ==
    [chat |-> chat, rights |-> [ban_users |-> FALSE, other |-> FALSE]]
BannedRightsBuilderInner_new(chat) ==
    [chat |-> chat, rights |-> [view_messages |-> FALSE, send_messages |-> FALSE]]

Builder_new(kind, chat) ==
    [kind |-> kind,
     inner |-> Some(IF kind = "Admin" THEN AdminRightsBuilderInner_new(chat)
                    ELSE BannedRightsBuilderInner_new(chat)),
     fut |-> None, gen_calls |-> 0, polls |-> 0]

PeerIdInvalid == Rpc(400, <<"PEER", "_", "ID", "_", "INVALID">>, None)
ChatInvalid == Rpc(400, <<"CHAT", "_", "INVALID">>, None)

\* What AdminRightsBuilderInner::invoke decides before it awaits: the
\* request it sends, or the error it returns without sending one.
AdminRightsBuilderInner_invoke(inner) ==
    IF try_to_input_channel(inner.chat)
    THEN [req |-> "channels.editAdmin", is_admin |-> FALSE, error |-> NoError]
    ELSE IF try_to_chat_id(inner.chat)
    THEN [req |-> "messages.editChatAdmin", is_admin |-> inner.rights.ban_users,
          error |-> NoError]
    ELSE [req |-> "", is_admin |-> FALSE, error |-> PeerIdInvalid]

\* Mutant: a small group chat gets the remove-user request whatever the
\* rights say.
BannedRightsBuilderInner_invoke_always_removes(inner) ==
    IF try_to_input_channel(inner.chat)
    THEN [req |-> "channels.editBanned", is_admin |-> FALSE, error |-> NoError]
    ELSE IF try_to_chat_id(inner.chat)
    THEN [req |-> "messages.deleteChatUser", is_admin |-> FALSE, error |-> NoError]
    ELSE [req |-> "", is_admin |-> FALSE, error |-> PeerIdInvalid]

\* What BannedRightsBuilderInner::invoke decides before it awaits.
BannedRightsBuilderInner_invoke(inner) ==
    IF try_to_input_channel(inner.chat)
    THEN [req |-> "channels.editBanned", is_admin |-> FALSE, error |-> NoError]
    ELSE IF try_to_chat_id(inner.chat)
    THEN IF inner.rights.view_messages
         THEN [req |-> "messages.deleteChatUser", is_admin |-> FALSE, error |-> NoError]
         ELSE [req |-> "", is_admin |-> FALSE, error |-> ChatInvalid]
    ELSE [req |-> "", is_admin |-> FALSE, error |-> PeerIdInvalid]

\* fut_gen: the future of the inner type's `invoke`, not yet polled.
fut_gen(kind, inner) ==
    [state |-> "start", inner |-> inner, answer |-> NoError,
     plan |-> IF kind = "Admin" THEN AdminRightsBuilderInner_invoke(inner)
              ELSE BannedRightsBuilderInner_invoke(inner)]

\* What a poll leaves behind and returns: result is "Pending", "Ok", "Err"
\* or "panic".
PollReturn(b, w, result, error) == [builder |-> b, wire |-> w, result |-> result, error |-> error]

\* The stored future is polled: its first poll sends the request or
\* returns the error; it is Ready once the answer r is there; polled again
\* after that, an async fn panics.
PollFuture(b, c, w, ready, r) ==
    LET f == b.fut[1]
        sent == invoke(c, w, f.plan.req, r)
        answer == IF f.state = "start" THEN r ELSE f.answer
        done == [b EXCEPT !.fut = Some([f EXCEPT !.state = "done", !.answer = answer])]
        waiting == [b EXCEPT !.fut = Some([f EXCEPT !.state = "awaiting", !.answer = answer])]
    IN  IF f.state = "done" THEN PollReturn(b, w, "panic", NoError)
        ELSE IF f.plan.req = "" THEN PollReturn(done, w, "Err", f.plan.error)
        ELSE IF ~ready
        THEN PollReturn(waiting, IF f.state = "start" THEN sent ELSE w, "Pending", NoError)
        ELSE PollReturn(done, IF f.state = "start" THEN sent ELSE w,
                        IF answer.kind = "Ok" THEN "Ok" ELSE "Err",
                        IF answer.kind = "Ok" THEN NoError ELSE answer)

\* Mutant: the future made by fut_gen is polled but not stored.
Builder_poll_forgets(b, c, w, ready, r) ==
    LET polled == [b EXCEPT !.polls = @ + 1]
        b1 == [polled EXCEPT !.fut = Some(fut_gen(b.kind, b.inner[1])), !.inner = None,
                             !.gen_calls = @ + 1]
        out == PollFuture(b1, c, w, ready, r)
    IN  IF b.inner = None THEN PollReturn(polled, w, "unwrap failed", NoError)
        ELSE [out EXCEPT !.builder.fut = None]

\* AdminRightsBuilder::poll and BannedRightsBuilder::poll
Builder_poll(b, c, w, ready, r) ==
    LET polled == [b EXCEPT !.polls = @ + 1]
        b1 == [polled EXCEPT !.fut = Some(fut_gen(b.kind, b.inner[1])), !.inner = None,
                             !.gen_calls = @ + 1]
    IN  IF b.fut # None THEN PollFuture(polled, c, w, ready, r)
        ELSE IF b.inner = None THEN PollReturn(polled, w, "unwrap failed", NoError)
        ELSE PollFuture(b1, c, w, ready, r)

\* BannedRightsBuilder::view_messages and ::send_messages: `true` takes
\* the right away, so the builder stores the negation.
view_messages(b, v) == [b EXCEPT !.inner[1].rights.view_messages = ~v]
send_messages(b, v) == [b EXCEPT !.inner[1].rights.send_messages = ~v]

\* AdminRightsBuilder::ban_users; `other` is set by load_current only.
ban_users(b, v) == [b EXCEPT !.inner[1].rights.ban_users = v]

(***************************************************************************)
(* The state machine of one builder: its rights are set, then it is        *)
(* polled.  The setters take the builder by value, so none runs once the   *)
(* builder is pinned and polled.                                           *)
(***************************************************************************)
NoPoll ==
    [op |-> "", n |-> 0, result |-> "", variant |-> "", error |-> NoError,
     value |-> <<>>, answer |-> NoError, before |-> Builder_new("Admin", "User"),
     from |-> 0]

InitRights ==
    /\ GenIdle
    /\ ModIdle
    /\ client = NewClient
    /\ wire = <<>>
    /\ outcome = NoPoll
    /\ iter = <<>>
    /\ builder \in {Builder_new(kind, chat) : kind \in {"Admin", "Banned"}, chat \in ChatKinds}
    /\ app = <<>>

SetRight ==
    /\ builder.polls = 0
    /\ \E v \in BOOLEAN :
          builder' \in IF builder.kind = "Admin" THEN {ban_users(builder, v)}
                       ELSE {view_messages(builder, v), send_messages(builder, v)}
    /\ builder' # builder
    /\ UNCHANGED <<client, wire, outcome, iter, app>>
    /\ UNCHANGED <<genVars, modVars>>

\* The answers to the request of a builder.
RightsAnswers == {Ok("Updates", <<>>), Transport, FloodWait}

Poll ==
    /\ builder.polls < MaxPolls
    /\ outcome.result # "panic"
    /\ \E ready \in BOOLEAN :
       \E r \in (IF builder.fut = None THEN RightsAnswers ELSE {NoError}) :
          LET out == Builder_poll(builder, client, wire, ready, r)
          IN  /\ builder' = out.builder
              /\ wire' = out.wire
              /\ outcome' = [op |-> "poll", n |-> outcome.n + 1, result |-> out.result,
                             variant |-> "", error |-> out.error, value |-> <<>>,
                             answer |-> r, before |-> builder, from |-> Len(wire)]
    /\ UNCHANGED <<client, iter, app>>
    /\ UNCHANGED <<genVars, modVars>>

NextRights == SetRight \/ Poll

SpecRights == InitRights /\ [][NextRights]_vars

(***************************************************************************)
(* Properties of the builders.                                             *)
(***************************************************************************)
\* The inner value handed to fut_gen, once the builder was polled.
Started == builder.fut # None
InnerPolled == builder.fut[1].inner

\* C23: BannedRightsBuilderInner::invoke on a small group chat sends the
\* remove-user request iff the view_messages restriction is set, and fails
\* otherwise with CHAT_INVALID (400) without sending a request; on a chat
\* that is neither a channel nor a small group it fails with
\* PEER_ID_INVALID (400) without sending a request.
C23_SmallGroupsOnlyBan ==
    (builder.kind = "Banned" /\ Started) =>
        LET removes == Invokes(wire, "messages.deleteChatUser")
        IN  /\ InnerPolled.chat = "Chat" =>
                  /\ Len(removes) = (IF InnerPolled.rights.view_messages THEN 1 ELSE 0)
                  /\ ~InnerPolled.rights.view_messages =>
                        /\ wire = <<>>
                        /\ builder.polls = 1 =>
                              /\ outcome.result = "Err"
                              /\ outcome.error.name = <<"CHAT", "_", "INVALID">>
                              /\ outcome.error.code = 400
            /\ InnerPolled.chat = "User" =>
                  /\ wire = <<>>
                  /\ builder.polls = 1 =>
                        /\ outcome.result = "Err"
                        /\ outcome.error.name = <<"PEER", "_", "ID", "_", "INVALID">>
                        /\ outcome.error.code = 400

\* A small group chat with view_messages and send_messages taken away: the
\* remove-user request was sent and answered.
C23_Witness ==
    /\ builder.kind = "Banned" /\ Started
    /\ InnerPolled.chat = "Chat"
    /\ InnerPolled.rights.send_messages
    /\ InnerPolled.rights.view_messages
    /\ Len(wire) = 1 /\ wire[1].req = "messages.deleteChatUser"
    /\ outcome.result = "Ok"

\* C26: over any sequence of polls of a rights builder, fut_gen is invoked
\* exactly once, on the first poll; inner is None only when fut is Some;
\* the unwrap of inner in poll never fails; and every later poll polls the
\* stored future and issues no new request.
C26_FutureMadeOnce ==
    /\ builder.gen_calls = (IF builder.polls = 0 THEN 0 ELSE 1)
    /\ builder.inner = None => builder.fut # None
    /\ outcome.result # "unwrap failed"
    /\ Len(wire) <= 1
    /\ (outcome.op = "poll" /\ outcome.before.polls > 0) =>
          /\ builder.fut # None /\ outcome.before.fut # None
          /\ builder.fut[1].inner = outcome.before.fut[1].inner
          /\ wire = SubSeq(wire, 1, outcome.from)

\* A request still pending after the first poll and answered at the third.
C26_Witness ==
    /\ builder.polls = 3
    /\ builder.gen_calls = 1
    /\ Len(wire) = 1
    /\ outcome.before.fut # None
    /\ outcome.before.fut[1].state = "awaiting"
    /\ outcome.result = "Ok"

(***************************************************************************)
(* Properties of the mask literals and of the `true` type.                 *)
(***************************************************************************)
\* lit is 2^index as a u32: positive, and for index > 0 twice 2^(index-1).
IsBitOf(lit, index) ==
    IF index = 0 THEN lit = 1
    ELSE lit > 0 /\ lit % 2 = 0 /\ lit \div 2 = 2^(index - 1)

\* C24: for every flag bit index from 0 to 31, the mask literal emitted for
\* that bit in the serializer and in the deserializer is 2^index as an
\* unsigned 32-bit value, so a field on bit 31 sets and tests bit 31.
C24_MaskLiteralIsBit ==
    pc \in {"emitted", "built", "rejected"} =>
        \A p \in {q \in ParamsOf(def) : IsGated(q)} :
            /\ \A i \in 1..Len(serProg) : \A k \in 1..Len(serProg[i].terms) :
                  serProg[i].terms[k].field = attr_name(p) =>
                      IsBitOf(serProg[i].terms[k].lit, p.flag[1].index)
            /\ \A n \in 1..Len(deProg) : \A i \in 1..Len(deProg[n].stmts) :
                  (deProg[n].stmts[i].op \in {"LetBit", "LetOpt"}
                   /\ deProg[n].stmts[i].field = attr_name(p)) =>
                      IsBitOf(deProg[n].stmts[i].lit, p.flag[1].index)

(***************************************************************************)
(* write_category_mod on schemas with a `true` parameter that no flag      *)
(* gates.                                                                  *)
(***************************************************************************)
\* Definitions with a "true"-typed parameter without a flag reference.
Ungated ==
    { SchemaDef("inputPeerSelf", 1010, "Types", "", Type("InputPeer", FALSE),
                <<NormalParam("peer", "int", None),
                  NormalParam("silent", "true", None)>>),
      SchemaDef("getState", 1011, "Functions", "messages", Type("Updates", FALSE),
                <<NormalParam("silent", "true", None)>>),
      SchemaDef("sendMessage", SendMessageId, "Functions", "messages",
                Type("Updates", FALSE),
                <<FlagsParam("flags"),
                  NormalParam("silent", "true", None),
                  NormalParam("message", "string", Some(Flag("flags", 0)))>>) }

\* Definition lists of one or two Definitions, one of them from Ungated.
UngatedLists ==
    {<<u>> : u \in Ungated}
    \cup UNION {{<<u, d>>, <<d, u>>} :
                    <<u, d>> \in {x \in Ungated \X (WellFormed \cup Ungated) :
                                      x[1].name # x[2].name}}

InitUngated ==
    /\ GenIdle
    /\ definitions \in UngatedLists
    /\ metadata = Metadata_new(definitions)
    /\ category \in Categories
    /\ conf \in Configs
    /\ failing = {}
    /\ file = Writer({})
    /\ ret = "none"
    /\ mpc = "start"
    /\ narrowing = NoNarrowing
    /\ NetIdle

SpecUngated == InitUngated /\ [][NextMod]_vars

HasUngatedTrue(d) ==
    \E p \in ParamsOf(d) : p.kind = "Normal" /\ p.ty = "true" /\ p.flag = None

\* The run of write_category_mod emits a deserializer for d.
DeserializerEmitted(d) ==
    /\ d.category = category
    /\ Retained(d)
    /\ EmitsDeserializer(d, conf.deserializable_functions)

\* The file holds a deserializer of d up to its `Ok(Name {` line.
DeserializerCompleted(written, d) ==
    \E i \in 1..Len(written) : \E j \in (i + 1)..Len(written) :
        /\ written[i].text = <<"impl">> \o get_generic_param_list(d, ": crate::Deserializable")
                             \o <<"crate::Deserializable for", type_name(d)>>
                             \o get_generic_param_list(d, "") \o <<"{">>
        /\ written[j].text = <<"        Ok(", type_name(d), "{">>

\* The Definitions of the run with an ungated `true` parameter for which a
\* deserializer is emitted.
UngatedEmitted ==
    {d \in {definitions[i] : i \in 1..Len(definitions)} :
        HasUngatedTrue(d) /\ DeserializerEmitted(d)}

\* C25 as stated: for a Definition with a "true"-typed parameter without a
\* flag reference and for which a deserializer is emitted, the run panics
\* and never returns Ok with a completed deserializer.
C25_UngatedTruePanics ==
    (mpc # "start" /\ UngatedEmitted # {}) =>
        /\ ret = "panic"
        /\ \A d \in UngatedEmitted : ~DeserializerCompleted(file.written, d)

\* C25, amended: such a run panics unless a write to the output fails before
\* the parameter is reached, in which case it returns that error; it never
\* returns Ok and never completes the deserializer.
C25_UngatedTrueNeverOk ==
    (mpc # "start" /\ UngatedEmitted # {}) =>
        /\ ret \in {"panic", "Err"}
        /\ ret = "Err" <=> file.err # 0
        /\ ret = "panic" <=> (file.err = 0 /\ file.panicked)
        /\ failing = {} => ret = "panic"
        /\ \A d \in UngatedEmitted : ~DeserializerCompleted(file.written, d)

\* A run that panicked after it had written the head of the deserializer
\* and the indentation of the parameter's line.
C25_Witness ==
    /\ mpc = "returned"
    /\ UngatedEmitted # {}
    /\ ret = "panic"
    /\ failing = {}
    /\ \E i \in 1..Len(file.written) : \E d \in UngatedEmitted :
          /\ Len(file.written[i].text) >= 3
          /\ file.written[i].text[Len(file.written[i].text) - 2] = "crate::Deserializable for"
          /\ file.written[i].text[Len(file.written[i].text) - 1] = type_name(d)
          /\ file.written[Len(file.written)] = Chunk(file.written[i].indent, <<"        ">>, FALSE)

(***************************************************************************)
(* async_main of the parser binary, from the prompt for the gift's name:   *)
(* the loop that fetches <gift>-1, <gift>-2, ..., gen_html and the         *)
(* sign-out at the end.                                                    *)
(***************************************************************************)
\* The most gifts the server answers with before the loop is cut off.
MaxGifts == 3

\* What `gift.trim()` may be: a name, a name with a dash, nothing at all.
GiftNames == {"PlushPepe", "Plush-1", ""}

\* format!("{}-{}", gift, i): the name, a dash and the decimal digits of i.
Slug(gift, i) == <<gift, "-", ToString(i)>>

\* The answers to payments.getUniqueStarGift: the gift, another variant of
\* payments.UniqueStarGift, or an error.
GiftAnswers ==
    {Ok("Gift", <<g>>) : g \in {"blue", "red"}}
    \cup {Ok("Other", <<>>), Transport,
          Rpc(400, <<"STARGIFT", "_", "SLUG", "_", "INVALID">>, None), FloodWait}

\* Client::get_unique_star_gift: one invoke of the request with the slug.
get_unique_star_gift(c, w, slug, r) ==
    Append(w, Invoked(c, "payments.getUniqueStarGift", r) @@ [slug |-> slug])

\* gen_html: one card per gift in the order of the Vec, written to
\* parsed.html; removing, creating or writing the file may fail.
gen_html(gifts, fs_ok) ==
    [result |-> IF fs_ok THEN "Ok" ELSE "Err",
     file |-> IF fs_ok THEN Some([k \in 1..Len(gifts) |-> gifts[k][1]]) ELSE None]

\* async_main after `let mut i = 1;`.
AppStart(gift, signs_out) ==
    [pc |-> "loop", gift |-> gift, i |-> 1, gifts |-> <<>>, sign_out |-> signs_out,
     html_calls |-> <<>>, parsed |-> None, result |-> "running"]

\* Mutant: an error does not leave the loop.
loop_body_retries(a, r) ==
    IF r.kind = "Ok" /\ r.name = <<"Gift">>
    THEN [a EXCEPT !.gifts = Append(@, r.data), !.i = @ + 1]
    ELSE IF r.kind = "Ok" THEN [a EXCEPT !.pc = "html"]
    ELSE a

\* The `match get_gift` of the loop: a Gift is pushed and counted, anything
\* else breaks out of the loop.
loop_body(a, r) ==
    IF r.kind = "Ok" /\ r.name = <<"Gift">>
    THEN [a EXCEPT !.gifts = Append(@, r.data), !.i = @ + 1]
    ELSE [a EXCEPT !.pc = "html"]

\* `if !gifts.is_empty() { gen_html(gifts)?; .. } else { .. }`
after_loop(a, fs_ok) ==
    IF a.gifts # <<>>
    THEN LET out == gen_html(a.gifts, fs_ok)
         IN  [a EXCEPT !.html_calls = Append(@, a.gifts),
                       !.parsed = out.file,
                       !.pc = IF out.result = "Ok" THEN "sign_out" ELSE "returned",
                       !.result = IF out.result = "Ok" THEN @ ELSE "Err"]
    ELSE [a EXCEPT !.pc = "sign_out"]

InitMain ==
    /\ GenIdle
    /\ ModIdle
    /\ client = NewClient
    /\ wire = <<>>
    /\ outcome = <<>>
    /\ iter = <<>>
    /\ builder = <<>>
    /\ app \in {AppStart(gift, signs_out) : gift \in GiftNames, signs_out \in BOOLEAN}

\* One iteration of the loop.
GetGift ==
    /\ app.pc = "loop"
    /\ app.i <= MaxGifts
    /\ \E r \in GiftAnswers :
          /\ wire' = get_unique_star_gift(client, wire, Slug(app.gift, app.i), r)
          /\ app' = loop_body(app, r)
    /\ UNCHANGED <<client, outcome, iter, builder>>
    /\ UNCHANGED <<genVars, modVars>>

\* The statements between the loop and the sign-out.
GenHtml ==
    /\ app.pc = "html"
    /\ \E fs_ok \in (IF app.gifts # <<>> THEN BOOLEAN ELSE {TRUE}) :
          app' = after_loop(app, fs_ok)
    /\ UNCHANGED <<client, wire, outcome, iter, builder>>
    /\ UNCHANGED <<genVars, modVars>>

\* `if sign_out { drop(client.sign_out_disconnect().await); }  Ok(())`
Leave ==
    /\ app.pc = "sign_out"
    /\ IF app.sign_out
       THEN \E r \in Responses("auth.logOut") :
               LET out == sign_out_disconnect(client, wire, r)
               IN  /\ wire' = [k \in 1..Len(out.wire) |->
                                  IF k <= Len(wire) THEN wire[k]
                                  ELSE out.wire[k] @@ [slug |-> <<>>]]
                   /\ app' = [app EXCEPT !.pc = "returned", !.result = out.result]
       ELSE /\ app' = [app EXCEPT !.pc = "returned", !.result = "Ok"]
            /\ wire' = wire
    /\ UNCHANGED <<client, outcome, iter, builder>>
    /\ UNCHANGED <<genVars, modVars>>

NextMain == GetGift \/ GenHtml \/ Leave

SpecMain == InitMain /\ [][NextMain]_vars

(***************************************************************************)
(* Properties of async_main.                                               *)
(***************************************************************************)
\* The requests for gifts made so far, in the order they were made.
GiftRequests == SelectSeq(wire, LAMBDA e : e.req = "payments.getUniqueStarGift")

IsGift(r) == r.kind = "Ok" /\ r.name = <<"Gift">>

\* C30: the loop requests the slugs <gift>-1, <gift>-2, ... in increasing
\* order without gaps or repeats; at every iteration the number of gifts
\* collected is i - 1; the loop stops at the first answer that is an error or
\* not a Gift and requests nothing after it; gen_html is called if and only
\* if a gift was collected, with the gifts in the order of the requests.
C30_GiftLoop ==
    LET reqs == GiftRequests
        n == Len(reqs)
        got == SelectSeq(reqs, LAMBDA e : IsGift(e.answer))
    IN  /\ \A k \in 1..n : reqs[k].slug = Slug(app.gift, k)
        /\ Len(app.gifts) = app.i - 1
        /\ app.gifts = [k \in 1..Len(got) |-> got[k].answer.data]
        /\ \A k \in 1..(n - 1) : IsGift(reqs[k].answer)
        /\ app.pc = "loop" => n = app.i - 1 /\ (n > 0 => IsGift(reqs[n].answer))
        /\ app.pc # "loop" => n = app.i /\ ~IsGift(reqs[n].answer)
        /\ app.pc \in {"loop", "html"} => app.html_calls = <<>>
        /\ app.pc \in {"sign_out", "returned"} =>
              /\ app.gifts # <<>> <=> Len(app.html_calls) = 1
              /\ app.gifts = <<>> <=> app.html_calls = <<>>
              /\ app.html_calls # <<>> => app.html_calls[1] = app.gifts
              /\ app.parsed # None =>
                    app.parsed[1] = [k \in 1..Len(got) |-> got[k].answer.data[1]]

\* The run that collected two gifts, stopped at the third answer and wrote
\* them to parsed.html.
C30_Witness ==
    /\ app.pc = "returned"
    /\ app.result = "Ok"
    /\ Len(GiftRequests) = 3
    /\ Len(app.gifts) = 2
    /\ app.gifts[1] # app.gifts[2]
    /\ app.parsed = Some(<<app.gifts[1][1], app.gifts[2][1]>>)

====
